---- MODULE Spec2Model ----
(***************************************************************************)
(* The command-execution engine of node-red-contrib-turbo: the turbo-exec  *)
(* node (shell variant).  One invocation is one 'input' event: parameter   *)
(* resolution and validation, spawn, the timeout timer, the stdout/stderr  *)
(* 'data' handlers with the output limit, and the 'close' / 'error'        *)
(* handlers that send the terminal event.  The child process and the       *)
(* event loop are the environment: a process may exit by itself, die of a  *)
(* signal, or fail to spawn, in which case the runtime emits 'error' and   *)
(* then 'close'.                                                           *)
(*                                                                         *)
(* Specifications: Spec and LiveSpec vary timeout, limit, streaming and    *)
(* output chunks for one invocation; ConcSpec runs two invocations at      *)
(* once; IoSpec varies the stdin path and payload; CfgSpec varies format   *)
(* and env; StdinSpec and FormatSpec call the stdin conversion and the     *)
(* output formatter on their own.                                          *)
(*                                                                         *)
(* JavaScript values: an optional value is a sequence, <<>> for undefined  *)
(* (or null) and <<v>> for the value v.                                    *)
(***************************************************************************)
EXTENDS Integers, Sequences, FiniteSets

\* ------------------------------------------------------------------ bounds
\* chunks one process delivers on stdout and stderr together
MaxChunks == 2

\* ------------------------------------------------------- program constants
DefaultTimeout == 30
DefaultLimit == 10

\* --------------------------------------------- compiled-language variant
\* invocations of the compiled-language node
CInvs == {1, 2, 3}
MaxInFlight == 2

\* the languages that go through the cache (everything but sh); both have
\* the build file extension .js
Langs == {"ts", "py"}

\* def.updated of the deployed node, and of the deployment before it
CurrentUpdated == 2
PreviousUpdated == 1

\* a source: the script text and language a file was produced from
Source(script, language) == [script |-> script, language |-> language]

\* CacheMetadata as the handler uses it: updated, mainCmd (cmdArgs go with it)
CacheEntry(updated, mainCmd) == [updated |-> updated, mainCmd |-> mainCmd]

\* The files named after the node's id.  cacheFile, scriptFile[l] and
\* buildFile are <<>> when the file does not exist.  buildFile holds the
\* source the artifact was compiled from; cacheSrc remembers the source whose
\* build the cache entry was saved after (neither is in the real cache file).
EmptyDisk ==
    [cacheFile |-> <<>>, cacheSrc |-> <<>>,
     scriptFile |-> [l \in Langs |-> <<>>], buildFile |-> <<>>]

\* what the previous deployment of the node left behind
PreviousDisk ==
    [cacheFile |-> <<CacheEntry(PreviousUpdated, "deno")>>,
     cacheSrc |-> <<Source("A", "ts")>>,
     scriptFile |-> [l \in Langs |-> IF l = "ts" THEN <<"A">> ELSE <<>>],
     buildFile |-> <<Source("A", "ts")>>]

\* an invocation slot before its message arrives
NoRun ==
    [pc |-> "idle", script |-> "", language |-> "", cache |-> <<>>,
     cacheSrc |-> <<>>, hit |-> FALSE, mainCmd |-> "", steps |-> <<>>,
     error |-> <<>>, ran |-> <<>>, entryAtSpawn |-> <<>>, after |-> {}]

\* ------------------------------------------------------------- input sets
None == <<>>
Some(v) == <<v>>

\* invocation slots
Invs == {1, 2}

\* the slot the one-at-a-time specifications use
MainInvs == {1}

\* the node's fields are set by the editor, a message may lack them
DefTimeouts == {Some(0), Some(1)}
MsgTimeouts == {None, Some(0), Some(-1)}
DefLimits == {Some(0), Some(1)}
MsgLimits == {None, Some(-1)}
DefStreamings == {Some(FALSE), Some(TRUE)}
MsgStreamings == {None}
DefScripts == {""}
MsgScripts == {"", "sh"}

\* sizes of the chunks a process writes, in bytes: one byte, and the default
\* limit in bytes
ChunkSizes == {1, DefaultLimit * 1024 * 1024}

Streams == {"out", "err"}

\* what the runtime reports at 'close': an exit code, or null (<<>>) when a
\* signal ended the process
OwnExitCodes == {Some(0), Some(1)}
SpawnErrno == -2

\* --------------------------------------------------- JavaScript values
\* longest string, buffer or array among the values written to stdin
MaxValLen == 2

\* A value is a record with one field per kind of content, so that values
\* of different types compare: a string's or a buffer's characters (an
\* object's single key), a number (the object's single property), a
\* boolean, an array's numbers.  Text is a sequence of characters; a literal
\* the runtime produces whole ("true", "[object Object]") is one element.
Val(t, s, n, b, ns) == [type |-> t, str |-> s, num |-> n, bool |-> b, nums |-> ns]

Undefined == Val("undefined", <<>>, 0, FALSE, <<>>)
Null == Val("null", <<>>, 0, FALSE, <<>>)
Buf(s) == Val("buffer", s, 0, FALSE, <<>>)
Str(s) == Val("string", s, 0, FALSE, <<>>)
Num(n) == Val("number", <<>>, n, FALSE, <<>>)
Bool(b) == Val("boolean", <<>>, 0, b, <<>>)
Arr(ns) == Val("array", <<>>, 0, FALSE, ns)
\* the object {k: n}
Obj(k, n) == Val("object", k, n, FALSE, <<>>)
\* an object that refers to itself: JSON.stringify throws on it
Cyclic == Val("cyclic", <<>>, 0, FALSE, <<>>)

SeqsUpTo(S, n) == UNION {[1..k -> S] : k \in 0..n}

ValChars == {"a", "\""}
ValNums == {0, 7, -12}

Values ==
    {Undefined, Null, Cyclic}
        \cup {Buf(s) : s \in SeqsUpTo(ValChars, MaxValLen)}
        \cup {Str(s) : s \in SeqsUpTo(ValChars, MaxValLen)}
        \cup {Num(n) : n \in ValNums}
        \cup {Bool(b) : b \in BOOLEAN}
        \cup {Arr(ns) : ns \in SeqsUpTo(ValNums, MaxValLen)}
        \cup {Obj(k, n) : k \in SeqsUpTo(ValChars, 1), n \in ValNums}

DigitChar(d) ==
    CASE d = 0 -> "0" [] d = 1 -> "1" [] d = 2 -> "2" [] d = 3 -> "3"
      [] d = 4 -> "4" [] d = 5 -> "5" [] d = 6 -> "6" [] d = 7 -> "7"
      [] d = 8 -> "8" [] d = 9 -> "9"

RECURSIVE NatText(_)
NatText(n) ==
    IF n < 10 THEN <<DigitChar(n)>>
    ELSE NatText(n \div 10) \o <<DigitChar(n % 10)>>

\* String(n) and JSON.stringify(n) of an integer
NumText(n) == IF n < 0 THEN <<"-">> \o NatText(-n) ELSE NatText(n)

BoolText(b) == IF b THEN <<"true">> ELSE <<"false">>

RECURSIVE JoinNums(_)
\* Array.prototype.join(','), also the separator JSON.stringify uses
JoinNums(ns) ==
    IF ns = <<>> THEN <<>>
    ELSE IF Len(ns) = 1 THEN NumText(ns[1])
    ELSE NumText(ns[1]) \o <<",">> \o JoinNums(Tail(ns))

RECURSIVE JsonEscape(_)
\* JSON string escaping of quote and backslash
JsonEscape(s) ==
    IF s = <<>> THEN <<>>
    ELSE (IF Head(s) \in {"\"", "\\"} THEN <<"\\", Head(s)>> ELSE <<Head(s)>>)
             \o JsonEscape(Tail(s))

JsonString(s) == <<"\"">> \o JsonEscape(s) \o <<"\"">>

\* String(v)
StringOf(v) ==
    CASE v.type = "undefined" -> <<"undefined">>
      [] v.type = "null" -> <<"null">>
      [] v.type = "buffer" -> v.str
      [] v.type = "string" -> v.str
      [] v.type = "number" -> NumText(v.num)
      [] v.type = "boolean" -> BoolText(v.bool)
      [] v.type = "array" -> JoinNums(v.nums)
      [] v.type \in {"object", "cyclic"} -> <<"[object Object]">>

\* JSON.stringify(v) of a value it has a text for
JsonText(v) ==
    CASE v.type = "null" -> <<"null">>
      [] v.type = "string" -> JsonString(v.str)
      [] v.type = "number" -> NumText(v.num)
      [] v.type = "boolean" -> BoolText(v.bool)
      [] v.type = "array" -> <<"[">> \o JoinNums(v.nums) \o <<"]">>
      [] v.type = "object" ->
             <<"{">> \o JsonString(v.str) \o <<":">> \o NumText(v.num) \o <<"}">>

\* JSON.stringify throws on v / returns undefined for v
JsonThrows(v) == v.type = "cyclic"
JsonUndefined(v) == v.type = "undefined"

\* toInputChunk: the bytes written to stdin, <<>> for null (nothing to write)
ToInputChunk(v) ==
    IF v.type \in {"undefined", "null"} THEN None
    ELSE IF v.type = "buffer" THEN Some(v.str)
    ELSE IF v.type \in {"object", "array", "cyclic"}
         THEN IF JsonThrows(v) THEN Some(StringOf(v)) ELSE Some(JsonText(v))
    ELSE Some(StringOf(v))

\* the compiled-language variant's stdin data: a buffer as it is, anything
\* else through JSON.stringify; <<>> when write() gets undefined and throws
CachedStdinData(v) ==
    IF v.type = "buffer" THEN Some(v.str)
    ELSE IF JsonThrows(v) THEN Some(StringOf(v))
    ELSE IF JsonUndefined(v) THEN None
    ELSE Some(JsonText(v))

\* ------------------------------------------------------ output formatting
\* longest decoded output text
MaxTextLen == 4

\* the characters of output text: ESC (U+001B), the characters of a colour
\* sequence, and of JSON numbers and arrays
TextChars == {"ESC", "[", "]", "1", ";", "m"}

Texts == SeqsUpTo(TextChars, MaxTextLen)

RECURSIVE ParamRun(_)
\* [0-9;]* : the length of the leading run of digits and semicolons
ParamRun(s) ==
    IF s # <<>> /\ Head(s) \in {"1", ";"} THEN 1 + ParamRun(Tail(s)) ELSE 0

\* the length of a match of /\x1b\[[0-9;]*m/ at the start of s, 0 for none
AnsiMatch(s) ==
    IF Len(s) >= 3 /\ s[1] = "ESC" /\ s[2] = "["
    THEN LET r == ParamRun(SubSeq(s, 3, Len(s)))
         IN  IF Len(s) >= 3 + r /\ s[3 + r] = "m" THEN 3 + r ELSE 0
    ELSE 0

RECURSIVE StripAnsi(_)
\* text.replace(/\x1b\[[0-9;]*m/g, '')
StripAnsi(s) ==
    IF s = <<>> THEN <<>>
    ELSE IF AnsiMatch(s) > 0 THEN StripAnsi(SubSeq(s, AnsiMatch(s) + 1, Len(s)))
    ELSE <<Head(s)>> \o StripAnsi(Tail(s))

\* A JSON value over these characters is a number written with the digit 1,
\* or an array, which without a comma has at most one element: depth arrays
\* around a number or around nothing.
JsonValue(depth, hasNum, num) == [depth |-> depth, hasNum |-> hasNum, num |-> num]
NoValue == JsonValue(0, FALSE, 0)

RECURSIVE Ones(_)
\* the number written as n digits 1
Ones(n) == IF n = 0 THEN 0 ELSE 10 * Ones(n - 1) + 1

RECURSIVE JsonParse(_)
\* JSON.parse(text): [ok |-> FALSE] when it throws SyntaxError
JsonParse(s) ==
    IF s = <<>> THEN [ok |-> FALSE, value |-> NoValue]
    ELSE IF \A k \in DOMAIN s : s[k] = "1"
         THEN [ok |-> TRUE, value |-> JsonValue(0, TRUE, Ones(Len(s)))]
    ELSE IF Len(s) >= 2 /\ s[1] = "[" /\ s[Len(s)] = "]"
         THEN LET inner == SubSeq(s, 2, Len(s) - 1)
                  r == JsonParse(inner)
              IN  IF inner = <<>> THEN [ok |-> TRUE, value |-> JsonValue(1, FALSE, 0)]
                  ELSE IF r.ok
                       THEN [ok |-> TRUE,
                             value |-> [r.value EXCEPT !.depth = @ + 1]]
                  ELSE [ok |-> FALSE, value |-> NoValue]
    ELSE [ok |-> FALSE, value |-> NoValue]

\* a formatted output: a text, a parsed JSON value, the lines of a text, the
\* raw buffer, or the exception the formatter let escape
Formatted(kind, text, value) == [kind |-> kind, text |-> text, value |-> value]

\* the json formatter without its try/catch
JsonFormatNoCatch(text) ==
    IF JsonParse(text).ok THEN Formatted("value", <<>>, JsonParse(text).value)
    ELSE Formatted("throw", <<>>, NoValue)

\* the json formatter: the parsed value, or the text when JSON.parse throws
JsonFormat(text) ==
    IF JsonParse(text).ok THEN Formatted("value", <<>>, JsonParse(text).value)
    ELSE Formatted("text", text, NoValue)

\* baseFormatText is a function for these formats and null for any other
HasBaseFormat(format) == format \in {"json", "split", "full", "string"}

\* baseFormatText(text); a text over TextChars has no newline and no blank,
\* so split gives the text as its one line, or no line when it is empty
BaseFormatText(format, text) ==
    CASE format = "json" -> JsonFormat(text)
      [] format = "split" -> Formatted("lines", text, NoValue)
      [] format \in {"full", "string"} -> Formatted("text", text, NoValue)

\* what the close handler makes of the decoded output: formatText(text), or
\* the buffer itself when formatText is null
FormatText(strip, format, text) ==
    IF ~HasBaseFormat(format) THEN Formatted("buffer", text, NoValue)
    ELSE IF strip THEN BaseFormatText(format, StripAnsi(text))
    ELSE BaseFormatText(format, text)

\* the exec/spawn helper node's formatOutput: def.outputFormat || 'text',
\* no stripping
FormatOutput(format, text) ==
    LET f == IF format # "" THEN format ELSE "text"
    IN  CASE f = "buffer" -> Formatted("buffer", text, NoValue)
          [] f = "json" -> JsonFormat(text)
          [] f = "list" -> Formatted("lines", text, NoValue)
          [] OTHER -> Formatted("text", text, NoValue)

\* ----------------------------------------------------------- message paths
\* A JavaScript value as a tree: an object or an array carries its own
\* properties (an array's elements are its properties "0", "1", ... and it
\* has a length); a key is the text of the property name.
NoProps == [k \in {} |-> 0]
JLeaf(kind, val) == [kind |-> kind, val |-> val, props |-> NoProps, len |-> 0]
JUndefined == JLeaf("undefined", <<>>)
JString(text) == JLeaf("string", text)
JNumber(n) == JLeaf("number", NumText(n))
JBoolean(b) == JLeaf("boolean", BoolText(b))
JObject(props) == [kind |-> "object", val |-> <<>>, props |-> props, len |-> 0]
JArray(items) ==
    [kind |-> "array", val |-> <<>>,
     props |-> [k \in {NatText(i - 1) : i \in DOMAIN items} |->
                  items[CHOOSE i \in DOMAIN items : NatText(i - 1) = k]],
     len |-> Len(items)]

Digits == {"0", "1", "2", "3", "4", "5", "6", "7", "8", "9"}
DigitValue(c) == CHOOSE d \in 0..9 : DigitChar(d) = c

\* /^\d+$/.test(text)
AllDigits(text) == Len(text) > 0 /\ \A i \in DOMAIN text : text[i] \in Digits

\* the text is the name of an array element: digits in canonical form
IsIndex(text) == AllDigits(text) /\ (Len(text) = 1 \/ text[1] # "0")

RECURSIVE NatValue(_)
NatValue(text) ==
    IF text = <<>> THEN 0
    ELSE 10 * NatValue(SubSeq(text, 1, Len(text) - 1)) + DigitValue(text[Len(text)])

RECURSIVE DigitPrefix(_)
DigitPrefix(text) ==
    IF text = <<>> \/ text[1] \notin Digits THEN <<>>
    ELSE <<text[1]>> \o DigitPrefix(Tail(text))

\* parseInt(text, 10) of a text without sign or blanks: <<>> is NaN
ParseInt(text) ==
    IF DigitPrefix(text) = <<>> THEN <<>> ELSE <<NatValue(DigitPrefix(text))>>

\* current[key]
JGet(node, key) == IF key \in DOMAIN node.props THEN node.props[key] ELSE JUndefined

\* current[key] = v; an array grows to hold the element
JSet(node, key, v) ==
    [node EXCEPT
       !.props = [k \in DOMAIN node.props \cup {key} |->
                    IF k = key THEN v ELSE node.props[k]],
       !.len = IF node.kind = "array" /\ IsIndex(key) /\ NatValue(key) >= node.len
               THEN NatValue(key) + 1 ELSE node.len]

\* while (current.length <= index) current.push(undefined)
RECURSIVE PushUndefined(_, _)
PushUndefined(node, index) ==
    IF node.len > index THEN node
    ELSE PushUndefined(JSet(node, NatText(node.len), JUndefined), index)

PathSpecial == {".", "[", "]", "'", "\""}

\* the end of the longest run of ordinary characters that starts at p
RECURSIVE RunEnd(_, _)
RunEnd(text, p) ==
    IF p < Len(text) /\ text[p + 1] \notin PathSpecial THEN RunEnd(text, p + 1) ELSE p

\* path.match(/[^.\[\]'"]+|'[^']*'|"[^"]*"/g) from position p on
RECURSIVE PathMatch(_, _)
PathMatch(text, p) ==
    IF p > Len(text) THEN <<>>
    ELSE IF text[p] \notin PathSpecial
         THEN <<SubSeq(text, p, RunEnd(text, p))>> \o PathMatch(text, RunEnd(text, p) + 1)
    ELSE IF text[p] \in {"'", "\""} /\ \E q \in (p + 1)..Len(text) : text[q] = text[p]
         THEN LET q == CHOOSE q \in (p + 1)..Len(text) :
                          /\ text[q] = text[p]
                          /\ \A r \in (p + 1)..(q - 1) : text[r] # text[p]
              IN  <<SubSeq(text, p, q)>> \o PathMatch(text, q + 1)
    ELSE PathMatch(text, p + 1)

\* a part in matching quotes loses them
Unquote(prop) ==
    IF prop[1] \in {"'", "\""} /\ prop[Len(prop)] = prop[1]
    THEN SubSeq(prop, 2, Len(prop) - 1) ELSE prop

\* An identifier is one element of the text; the other characters are one
\* element each.
pathParts(path) ==
    LET parts == PathMatch(path, 1)
        shifted == IF parts # <<>> /\ parts[1] = <<"msg">> THEN Tail(parts) ELSE parts
    IN  [i \in DOMAIN shifted |-> Unquote(shifted[i])]

IsContainer(node) == node.kind \in {"object", "array"}

RECURSIVE GetFrom(_, _, _)
GetFrom(current, parts, i) ==
    IF i > Len(parts) THEN current
    ELSE IF ~IsContainer(current) THEN JUndefined
    ELSE IF current.kind = "array"
         THEN IF ParseInt(parts[i]) = <<>> THEN JUndefined
              ELSE GetFrom(JGet(current, NatText(ParseInt(parts[i])[1])), parts, i + 1)
    ELSE GetFrom(JGet(current, parts[i]), parts, i + 1)

getPath(obj, path) ==
    IF obj = JUndefined \/ path = <<>> THEN JUndefined
    ELSE GetFrom(obj, pathParts(path), 1)

\* the loop over the inner parts and the final assignment, on an object or
\* an array
RECURSIVE SetFrom(_, _, _, _)
SetFrom(current, parts, i, value) ==
    IF i >= Len(parts)
    THEN IF current.kind = "array"
         THEN IF ParseInt(parts[i]) = <<>> THEN current
              ELSE JSet(PushUndefined(current, ParseInt(parts[i])[1]),
                        NatText(ParseInt(parts[i])[1]), value)
         ELSE JSet(current, parts[i], value)
    ELSE LET prop == parts[i]
             next == IF IsContainer(JGet(current, prop)) THEN JGet(current, prop)
                     ELSE IF AllDigits(parts[i + 1]) THEN JArray(<<>>)
                     ELSE JObject(NoProps)
         IN  JSet(current, prop, SetFrom(next, parts, i + 1, value))

\* obj is an object or an array, or undefined
setPath(obj, path, value) ==
    IF obj = JUndefined \/ path = <<>> THEN obj
    ELSE IF pathParts(path) = <<>>
         THEN IF obj.kind = "array" THEN obj ELSE JSet(obj, <<"undefined">>, value)
    ELSE SetFrom(obj, pathParts(path), 1, value)

\* String(value), which String.prototype.replace applies to what the
\* replacer returns
RECURSIVE JText(_)
JText(node) ==
    LET RECURSIVE Join(_)
        Join(i) ==
            IF i >= node.len THEN <<>>
            ELSE (IF i = 0 THEN <<>> ELSE <<",">>)
                 \o (IF JGet(node, NatText(i)) = JUndefined THEN <<>>
                     ELSE JText(JGet(node, NatText(i))))
                 \o Join(i + 1)
    IN  CASE node.kind \in {"string", "number", "boolean"} -> node.val
          [] node.kind = "undefined" -> <<"undefined">>
          [] node.kind = "object" -> <<"[object Object]">>
          [] node.kind = "array" -> Join(0)

\* \w: an identifier element or a digit
NonWord == PathSpecial \cup {"{", "}", " ", ","}
IsWord(c) == c \notin NonWord

RECURSIVE WordEnd(_, _)
WordEnd(text, p) ==
    IF p < Len(text) /\ IsWord(text[p + 1]) THEN WordEnd(text, p + 1) ELSE p

\* /\{\{(\w+)\}\}/ matches at position p
TokenAt(text, p) ==
    /\ p + 4 <= Len(text)
    /\ text[p] = "{" /\ text[p + 1] = "{"
    /\ IsWord(text[p + 2])
    /\ WordEnd(text, p + 2) + 2 <= Len(text)
    /\ text[WordEnd(text, p + 2) + 1] = "}"
    /\ text[WordEnd(text, p + 2) + 2] = "}"

RECURSIVE TemplateReplace(_, _, _)
TemplateReplace(template, p, obj) ==
    IF p > Len(template) THEN <<>>
    ELSE IF TokenAt(template, p)
         THEN JText(getPath(obj, SubSeq(template, p + 2, WordEnd(template, p + 2))))
              \o TemplateReplace(template, WordEnd(template, p + 2) + 3, obj)
    ELSE <<template[p]>> \o TemplateReplace(template, p + 1, obj)

setTemplate(template, obj) == TemplateReplace(template, 1, obj)

\* JSON.parse of the texts a template of one token, bare or in double
\* quotes, can become: a number, true or false, a string in double quotes;
\* every other such text is not JSON (<<>>: SyntaxError)
TemplateJsonParse(text) ==
    IF IsIndex(text) THEN <<JNumber(NatValue(text))>>
    ELSE IF text \in {<<"true">>, <<"false">>} THEN <<JBoolean(text = <<"true">>)>>
    ELSE IF /\ Len(text) >= 2 /\ text[1] = "\"" /\ text[Len(text)] = "\""
            /\ \A i \in 2..(Len(text) - 1) : text[i] # "\""
         THEN <<JString(SubSeq(text, 2, Len(text) - 1))>>
    ELSE <<>>

\* the turbo-set node's 'input' handler: the message sent (<<>>: none) and
\* the error reported ("": none)
TurboSetResult(sent, error) == [sent |-> sent, error |-> error]

OnTurboSet(d, m) ==
    LET target == IF d.target # <<>> THEN d.target ELSE <<"payload">>
        source == IF d.source # <<>> THEN d.source ELSE <<"payload">>
        mode == IF d.mode # "" THEN d.mode ELSE "path"
        Send(value) == TurboSetResult(<<setPath(m, target, value)>>, "")
        Thrown == TurboSetResult(<<>>, "Processing error")
    IN  CASE mode = "path" -> Send(getPath(m, source))
          [] mode = "json" ->
                 IF d.content = <<>> THEN Send(JString(<<>>))
                 ELSE IF TemplateJsonParse(d.content) = <<>> THEN Thrown
                 ELSE Send(TemplateJsonParse(d.content)[1])
          [] mode = "text" -> Send(JString(d.content))
          [] mode = "jsonTemplate" ->
                 IF d.content = <<>> THEN Send(JString(<<>>))
                 ELSE IF TemplateJsonParse(setTemplate(d.content, m)) = <<>> THEN Thrown
                 ELSE Send(TemplateJsonParse(setTemplate(d.content, m))[1])
          [] mode = "textTemplate" ->
                 IF d.content = <<>> THEN Send(JString(<<>>))
                 ELSE Send(JString(setTemplate(d.content, m)))
          [] OTHER -> TurboSetResult(<<>>, "Unsupported mode")

VARIABLES
    def,        \* the node's configuration (NodeDef)
    processes,  \* the node's registry of live child processes
    pc,         \* per invocation: "idle", "rejected", "spawned"
    msg,        \* per invocation: the configuration fields of the input message
    proc,       \* per invocation: the child process as the runtime sees it
    exitStatus, \* per invocation: [code, signal] the runtime will report at close
    signalled,  \* per invocation: the grounds on which a SIGTERM reached the running process
    timeoutRef, \* per invocation: the timer: "none", "armed", "fired", "cleared"
    exec,       \* per invocation: the ExecData record
    kills,      \* per invocation: the grounds on which cp.kill was called
    sent,       \* per invocation: the events handed to this.send, in order
    child,      \* per invocation: what the child got: environment, stdin operations
    logged,     \* per invocation: what the node logged about stdin
    call        \* one call of a helper function: its name, arguments, result

\* the compiled-language variant of the node (turbo-exec.ts), up to the spawn
\* of the run command
VARIABLES
    cdef,       \* its configuration: script, language, cmd, updated
    disk,       \* the files in cwd: cache file, script files, build file
    crun        \* per invocation: position in the handler, what it read and did

compiledVars == <<cdef, disk, crun>>

VARIABLES
    cclose      \* the compiled node's 'close' event: whether it has run, and
                \* the child processes that were sent SIGTERM

\* the pb-realtime node (pb-realtime.ts)
VARIABLES
    subscriptions,  \* key -> the stored unsubscribe function, if any
    server,         \* per invocation: the server subscription it created
    rinv,           \* per invocation: position in the handler, action, key
    rclosed         \* the node's 'close' handler has run

realtimeVars == <<subscriptions, server, rinv, rclosed>>

vars == <<def, processes, pc, msg, proc, exitStatus, signalled,
          timeoutRef, exec, kills, sent, child, logged, call, compiledVars,
          cclose, realtimeVars>>


\* ------------------------------------------------------ JavaScript helpers
\* a number is truthy unless it is undefined or 0: the operand test of ||
TruthyNum(v) == v # None /\ v[1] # 0

TruthyBool(v) == v # None /\ v[1]

\* Number(d || m || dflt)
OrNumber(d, m, dflt) ==
    IF TruthyNum(d) THEN d[1] ELSE IF TruthyNum(m) THEN m[1] ELSE dflt

\* d || m || false
OrBool(d, m) == TruthyBool(d) \/ TruthyBool(m)

\* d || m || ''
OrString(d, m) == IF d # "" THEN d ELSE m

\* ------------------------------------------------- parameter resolution
ResolveScript(d, m) == OrString(d.script, m.script)

ResolveStreaming(d, m) == OrBool(d.streaming, m.streaming)

ResolveTimeout(d, m) == OrNumber(d.timeout, m.timeout, DefaultTimeout)

ResolveLimit(d, m) == OrNumber(d.limit, m.limit, DefaultLimit)

\* the propError checks that depend on the modelled fields
\* def.format || msg.format || 'string'
ResolveFormat(d, m) ==
    IF d.format # "" THEN d.format ELSE IF m.format # "" THEN m.format ELSE "string"

\* def.strip || msg.strip || true
ResolveStrip(d, m) == OrBool(d.strip, m.strip) \/ TRUE

\* def.env || msg.env || true
ResolveEnv(d, m) == OrBool(d.env, m.env) \/ TRUE

\* def.stdin || msg.stdin || ''
ResolveStdin(d, m) == OrString(d.stdin, m.stdin)

\* the checks that throw propError; strip and env are booleans and stdin a
\* string by construction
ParamsValid(d, m) ==
    /\ ResolveScript(d, m) # ""
    /\ ResolveFormat(d, m) # ""
    /\ ResolveTimeout(d, m) >= 0
    /\ ResolveLimit(d, m) >= 0

LimitBytes(limit) == IF limit > 0 THEN limit * 1024 * 1024 ELSE 0

\* a limit test that also fires when the counter equals the limit
OverLimitInclusive(limitBytes, length) == limitBytes > 0 /\ length >= limitBytes

\* the limit test of the 'data' handlers
OverLimit(limitBytes, length) == limitBytes > 0 /\ length > limitBytes

\* whether a timer is started
TimerStarted(timeout) == timeout > 0

\* ------------------------------------------------------------ exec record
NewExec ==
    [ outChunks |-> <<>>, errChunks |-> <<>>, length |-> 0,
      code |-> None, signal |-> None, success |-> None, error |-> <<>> ]

TimeoutError == <<"timeout">>
LimitError(limitBytes) == <<"buffer limit exceeded", limitBytes>>
SpawnError == <<"spawn ENOENT">>

\* code || 0
CodeOrZero(code) == IF code = None \/ code[1] = 0 THEN 0 ELSE code[1]

\* mutant: the recorded error is not consulted
CloseSuccessCodeOnly(code, error) == code = Some(0)

\* code === 0 && !exec.error
CloseSuccess(code, error) == code = Some(0) /\ error = <<>>

\* the output an event of the given topic is sent on
Port(streaming, topic) ==
    IF ~streaming THEN 1
    ELSE CASE topic = "start" -> 1
           [] topic = "out" -> 2
           [] topic = "err" -> 3
           [] topic = "exit" -> 4

Event(i, topic, by, x) ==
    [ topic |-> topic, by |-> by,
      port |-> Port(ResolveStreaming(def, msg[i]), topic), exec |-> x ]

NoMsg ==
    [script |-> "", streaming |-> None, timeout |-> None, limit |-> None,
     stdin |-> "", payload |-> Undefined, format |-> "", strip |-> None,
     env |-> None]
NoStatus == [code |-> None, signal |-> None]

NoChild == [env |-> "none", stdin |-> <<>>, write |-> "none", streamError |-> FALSE]
NoCall == [fn |-> "none", arg |-> Undefined, done |-> FALSE, result |-> None]

Defs ==
    [script : DefScripts, streaming : DefStreamings,
     timeout : DefTimeouts, limit : DefLimits,
     stdin : {""}, format : {"string"}, strip : {Some(TRUE)}, env : {Some(TRUE)}]

Msgs ==
    [script : MsgScripts, streaming : MsgStreamings,
     timeout : MsgTimeouts, limit : MsgLimits,
     stdin : {""}, payload : {Undefined}, format : {""}, strip : {None},
     env : {None}]

\* the node after construction, configured with one of the definitions D
ExecNodeInit(D) ==
    /\ def \in D
    /\ processes = {}
    /\ pc = [i \in Invs |-> "idle"]
    /\ msg = [i \in Invs |-> NoMsg]
    /\ proc = [i \in Invs |-> "none"]
    /\ exitStatus = [i \in Invs |-> NoStatus]
    /\ signalled = [i \in Invs |-> {}]
    /\ timeoutRef = [i \in Invs |-> "none"]
    /\ exec = [i \in Invs |-> NewExec]
    /\ kills = [i \in Invs |-> {}]
    /\ sent = [i \in Invs |-> <<>>]
    /\ child = [i \in Invs |-> NoChild]
    /\ logged = [i \in Invs |-> {}]

\* no compiled-language node is deployed
NoCompiled ==
    /\ cdef = [script |-> "", language |-> "", cmd |-> "", updated |-> 0]
    /\ disk = EmptyDisk
    /\ crun = [i \in CInvs |-> NoRun]

RKeys == {"posts:*", "users:*"}
RInvs == {1, 2, 3}

NoInvocation == [pc |-> "idle", action |-> "", key |-> ""]

NoRealtime ==
    /\ subscriptions = [k \in RKeys |-> <<>>]
    /\ server = [i \in RInvs |-> "none"]
    /\ rinv = [i \in RInvs |-> NoInvocation]
    /\ rclosed = FALSE

NotClosed == [closed |-> FALSE, signalled |-> {}]

NodeInit(D) == ExecNodeInit(D) /\ NoCompiled /\ cclose = NotClosed /\ NoRealtime

Init == NodeInit(Defs) /\ call = NoCall

\* a kill that goes to every process the node has registered
KillEffectAll(i, ground) ==
    /\ kills' = [j \in Invs |-> IF j = i \/ j \in processes THEN kills[j] \cup {ground}
                                ELSE kills[j]]
    /\ signalled' = [j \in Invs |-> IF (j = i \/ j \in processes) /\ proc[j] = "running"
                                    THEN signalled[j] \cup {ground} ELSE signalled[j]]

\* ---------------------------------------------------------------- actions
\* cp.kill('SIGTERM') on the given ground: the signal reaches the process
\* only if it is still running
KillEffect(i, ground) ==
    /\ kills' = [kills EXCEPT ![i] = @ \cup {ground}]
    /\ signalled' = [signalled EXCEPT
                        ![i] = IF proc[i] = "running" THEN @ \cup {ground} ELSE @]

\* mutant: the streaming test is inverted
StartEventsInverted(streaming) ==
    IF ~streaming
    THEN <<[topic |-> "start", by |-> "input", port |-> Port(TRUE, "start"),
            exec |-> NewExec]>>
    ELSE <<>>

\* if (streaming) this.send([startEvent, null, null, null])
StartEvents(streaming) ==
    IF streaming
    THEN <<[topic |-> "start", by |-> "input", port |-> Port(TRUE, "start"),
            exec |-> NewExec]>>
    ELSE <<>>

\* spawnOptions.env: a copy of the parent's environment, or an empty one
SpawnEnv(env) == IF env THEN "parent" ELSE "empty"

\* getPath(msg, path) for the paths the messages use
GetPath(m, path) == IF path = "payload" THEN m.payload ELSE Undefined

WriteOp(bytes) == [op |-> "write", data |-> bytes]
EndOp == [op |-> "end", data |-> <<>>]

\* the stdin block: when a path is configured, the value at the path is
\* converted and, unless there is nothing to write, handed to
\* writeToStdinSafe and the stream is ended.  writeToStdinSafe skips the
\* write on a stream that is not writable and catches what write() throws.
StdinBlock(path, m, writable, threw) ==
    LET chunk == ToInputChunk(GetPath(m, path))
    IN  IF path = "" THEN [ops |-> <<>>, logs |-> {}, write |-> "none"]
        ELSE IF chunk = None
             THEN [ops |-> <<>>, logs |-> {"no stdin value"}, write |-> "none"]
        ELSE IF ~writable
             THEN [ops |-> <<EndOp>>, logs |-> {"stdin not writable"}, write |-> "none"]
        ELSE IF threw
             THEN [ops |-> <<EndOp>>, logs |-> {"stdin write exception"},
                   write |-> "none"]
        ELSE [ops |-> <<WriteOp(chunk[1]), EndOp>>, logs |-> {}, write |-> "pending"]

\* the 'input' handler: resolution, validation, spawn, start event, timer.
\* A validation error is thrown to the handler's own catch, which reports it
\* with this.error and sends nothing.  spawn either starts the process or
\* fails asynchronously (the runtime then emits 'error').
OnInput(i, m) ==
    /\ pc[i] = "idle"
    /\ msg' = [msg EXCEPT ![i] = m]
    /\ IF ~ParamsValid(def, m)
       THEN /\ pc' = [pc EXCEPT ![i] = "rejected"]
            /\ UNCHANGED <<processes, proc, exitStatus, timeoutRef, exec, sent,
                           child, logged>>
       ELSE /\ pc' = [pc EXCEPT ![i] = "spawned"]
            /\ \E started \in BOOLEAN :
                /\ proc' = [proc EXCEPT
                              ![i] = IF started THEN "running" ELSE "spawnError"]
                /\ exitStatus' = [exitStatus EXCEPT
                              ![i] = IF started THEN NoStatus
                                     ELSE [code |-> Some(SpawnErrno), signal |-> None]]
                /\ \E writable \in (IF started THEN {TRUE} ELSE BOOLEAN) :
                   \E threw \in BOOLEAN :
                    LET io == StdinBlock(ResolveStdin(def, m), m, writable, threw)
                    IN  /\ child' = [child EXCEPT
                                  ![i] = [env |-> SpawnEnv(ResolveEnv(def, m)),
                                          stdin |-> io.ops, write |-> io.write,
                                          streamError |-> FALSE]]
                        /\ logged' = [logged EXCEPT ![i] = io.logs]
            /\ exec' = [exec EXCEPT ![i] = NewExec]
            /\ processes' = processes \cup {i}
            /\ sent' = [sent EXCEPT ![i] = StartEvents(ResolveStreaming(def, m))]
            /\ timeoutRef' = [timeoutRef EXCEPT
                          ![i] = IF TimerStarted(ResolveTimeout(def, m))
                                 THEN "armed" ELSE "none"]
    /\ UNCHANGED <<realtimeVars, cclose, compiledVars, call, def, signalled, kills>>

\* a message arrives
Input(i) == \E m \in Msgs : OnInput(i, m)

\* the timeoutRef callback
TimerFire(i) ==
    /\ timeoutRef[i] = "armed"
    /\ proc[i] \in {"running", "exited"}
    /\ timeoutRef' = [timeoutRef EXCEPT ![i] = "fired"]
    /\ exec' = [exec EXCEPT ![i].error = TimeoutError]
    /\ KillEffect(i, "timeout")
    /\ UNCHANGED <<realtimeVars, cclose, compiledVars, call, child, logged, def, processes, pc, msg, proc, exitStatus, sent>>

\* a 'data' handler: stream is "out" or "err", n the chunk's length
OnData(i, stream, n) ==
    LET streaming == ResolveStreaming(def, msg[i])
        limitBytes == LimitBytes(ResolveLimit(def, msg[i]))
        pushed == IF stream = "out"
                  THEN [exec[i] EXCEPT !.outChunks = Append(@, n), !.length = @ + n]
                  ELSE [exec[i] EXCEPT !.errChunks = Append(@, n), !.length = @ + n]
    IN  /\ proc[i] \in {"running", "exited"}
        /\ Len(exec[i].outChunks) + Len(exec[i].errChunks) < MaxChunks
        /\ IF OverLimit(limitBytes, pushed.length)
           THEN \* onBufferLimit
                /\ exec' = [exec EXCEPT ![i] = [pushed EXCEPT !.error = LimitError(limitBytes)]]
                /\ KillEffect(i, "limit")
                /\ UNCHANGED sent
           ELSE /\ exec' = [exec EXCEPT ![i] = pushed]
                /\ sent' = [sent EXCEPT
                              ![i] = IF streaming
                                     THEN Append(@, Event(i, stream, "data", pushed))
                                     ELSE @]
                /\ UNCHANGED <<kills, signalled>>
        /\ UNCHANGED <<realtimeVars, cclose, compiledVars, call, child, logged, def, processes, pc, msg, proc, exitStatus, timeoutRef>>

StdoutData(i) == \E n \in ChunkSizes : OnData(i, "out", n)

StderrData(i) == \E n \in ChunkSizes : OnData(i, "err", n)

\* the statuses a running process can end with
ExitStatuses(i) ==
    {[code |-> c, signal |-> None] : c \in OwnExitCodes}
        \cup {[code |-> None, signal |-> Some("SIGKILL")]}
        \cup (IF signalled[i] # {} THEN {[code |-> None, signal |-> Some("SIGTERM")]} ELSE {})

\* environment: the process ends
ProcExit(i) ==
    /\ proc[i] = "running"
    /\ \E st \in ExitStatuses(i) : exitStatus' = [exitStatus EXCEPT ![i] = st]
    /\ proc' = [proc EXCEPT ![i] = "exited"]
    /\ UNCHANGED <<realtimeVars, cclose, compiledVars, call, child, logged, def, processes, pc, msg, signalled, timeoutRef, exec, kills, sent>>

\* if (timeoutRef) clearTimeout(timeoutRef)
ClearTimer(t) == IF t = "armed" THEN "cleared" ELSE t

\* mutant: the handler returns early when an error was recorded
CloseEventsSilentOnError(i, x) ==
    IF x.error # <<>> THEN <<>> ELSE <<Event(i, "exit", "close", x)>>

\* the events the 'close' handler sends
CloseEvents(i, x) == <<Event(i, "exit", "close", x)>>

\* cp.on('close')
CloseCb(i) ==
    LET st == exitStatus[i]
        closed == [exec[i] EXCEPT !.code = Some(CodeOrZero(st.code)),
                                  !.signal = st.signal,
                                  !.success = Some(CloseSuccess(st.code, exec[i].error))]
    IN  /\ proc[i] \in {"exited", "errorEmitted"}
        /\ proc' = [proc EXCEPT ![i] = "closed"]
        /\ timeoutRef' = [timeoutRef EXCEPT ![i] = ClearTimer(@)]
        /\ processes' = processes \ {i}
        /\ exec' = [exec EXCEPT ![i] = closed]
        /\ sent' = [sent EXCEPT ![i] = @ \o CloseEvents(i, closed)]
        /\ UNCHANGED <<realtimeVars, cclose, compiledVars, call, child, logged, def, pc, msg, exitStatus, signalled, kills>>

\* a handler that records the message and leaves success unset
SpawnFailedSuccessUnset(x) == [x EXCEPT !.error = SpawnError]

\* what the 'error' handler records: the error's message, success false
SpawnFailed(x) == [x EXCEPT !.error = SpawnError, !.success = Some(FALSE)]

\* the events the 'error' handler sends
ErrorEvents(i, x) == <<Event(i, "exit", "error", x)>>

\* cp.on('error'): the runtime emits it when the spawn failed, and 'close'
\* after it
ErrorCb(i) ==
    LET failed == SpawnFailed(exec[i])
    IN  /\ proc[i] = "spawnError"
        /\ proc' = [proc EXCEPT ![i] = "errorEmitted"]
        /\ timeoutRef' = [timeoutRef EXCEPT ![i] = ClearTimer(@)]
        /\ processes' = processes \ {i}
        /\ exec' = [exec EXCEPT ![i] = failed]
        /\ sent' = [sent EXCEPT ![i] = @ \o ErrorEvents(i, failed)]
        /\ UNCHANGED <<realtimeVars, cclose, compiledVars, call, child, logged, def, pc, msg, exitStatus, signalled, kills>>

\* stdin handlers that record the failure in the result
StdinFailureRecorded(x) == [x EXCEPT !.error = <<"stdin">>]

\* what the stdin handlers do to the ExecData record: nothing, they only log
StdinFailure(x) == x

WriteErrors == {"EPIPE", "EIO"}

\* the callback of cp.stdin.write: no error, EPIPE (warn) or another error
StdinWriteCb(i) ==
    /\ child[i].write = "pending"
    /\ \E err \in {""} \cup WriteErrors :
        /\ child' = [child EXCEPT ![i].write = "done"]
        /\ IF err = ""
           THEN UNCHANGED <<logged, exec>>
           ELSE /\ logged' = [logged EXCEPT ![i] = @ \cup {"stdin write " \o err}]
                /\ exec' = [exec EXCEPT ![i] = StdinFailure(@)]
    /\ UNCHANGED <<realtimeVars, cclose, compiledVars, call, def, processes, pc, msg, proc, exitStatus, signalled,
                   timeoutRef, kills, sent>>

\* cp.stdin.on('error'): the stream reports EPIPE (warn) or another error
StdinStreamError(i) ==
    /\ child[i].stdin # <<>>
    /\ ~child[i].streamError
    /\ \E err \in WriteErrors :
        /\ child' = [child EXCEPT ![i].streamError = TRUE]
        /\ logged' = [logged EXCEPT ![i] = @ \cup {"stdin stream " \o err}]
        /\ exec' = [exec EXCEPT ![i] = StdinFailure(@)]
    /\ UNCHANGED <<realtimeVars, cclose, compiledVars, call, def, processes, pc, msg, proc, exitStatus, signalled,
                   timeoutRef, kills, sent>>

\* a close handler that signals one registered process only
NodeCloseFirstOnly ==
    LET first == IF processes = {} THEN {} ELSE {CHOOSE j \in processes : TRUE}
    IN  /\ kills' = [i \in Invs |-> IF i \in first THEN kills[i] \cup {"shutdown"}
                                    ELSE kills[i]]
        /\ signalled' = [i \in Invs |-> IF i \in first /\ proc[i] = "running"
                                        THEN signalled[i] \cup {"shutdown"}
                                        ELSE signalled[i]]
        /\ processes' = {}
        /\ UNCHANGED <<realtimeVars, cclose, compiledVars, call, child, logged, def, pc, msg, proc, exitStatus, timeoutRef, exec, sent>>

\* the node's 'close' handler: SIGTERM to every registered process, then
\* processes.clear()
NodeClose ==
    /\ kills' = [i \in Invs |-> IF i \in processes THEN kills[i] \cup {"shutdown"}
                                ELSE kills[i]]
    /\ signalled' = [i \in Invs |-> IF i \in processes /\ proc[i] = "running"
                                    THEN signalled[i] \cup {"shutdown"}
                                    ELSE signalled[i]]
    /\ processes' = {}
    /\ UNCHANGED <<realtimeVars, cclose, compiledVars, call, child, logged, def, pc, msg, proc, exitStatus, timeoutRef, exec, sent>>

Next ==
    \/ \E i \in MainInvs :
        \/ Input(i)
        \/ TimerFire(i)
        \/ StdoutData(i)
        \/ StderrData(i)
        \/ ProcExit(i)
        \/ CloseCb(i)
        \/ ErrorCb(i)
    \/ NodeClose

Spec == Init /\ [][Next]_vars

\* fair delivery of the runtime's callbacks and timers; a process that was
\* sent SIGTERM ends
SignalledExit(i) == signalled[i] # {} /\ ProcExit(i)

Fairness ==
    \A i \in Invs :
        /\ WF_vars(CloseCb(i))
        /\ WF_vars(ErrorCb(i))
        /\ WF_vars(TimerFire(i))
        /\ WF_vars(SignalledExit(i))

LiveSpec == Spec /\ Fairness

\* ---------------------------------- the compiled-language node's handler
execVars == <<def, processes, pc, msg, proc, exitStatus, signalled,
              timeoutRef, exec, kills, sent, child, logged>>

\* def.language || msg.language || 'sh'
ResolveLanguage(d, m) ==
    IF d.language # "" THEN d.language ELSE IF m.language # "" THEN m.language ELSE "sh"

\* a comparison of the timestamps turned around
NeedsRebuildInverted(cache, updated, buildFile) ==
    \/ cache = <<>>
    \/ cache[1].updated = updated
    \/ buildFile = <<>>

\* needsRebuild: cache is {} (<<>>) when there was no file or it was unreadable
NeedsRebuild(cache, updated, buildFile) ==
    \/ cache = <<>>
    \/ cache[1].updated # updated
    \/ buildFile = <<>>

\* a spawn whose run command starts on an artifact of the invocation's own
\* script
SpawnedOwnArtifact(r, d) ==
    [r EXCEPT !.pc = "spawned", !.steps = Append(@, "spawn"),
              !.ran = <<Source(r.script, r.language)>>,
              !.entryAtSpawn = d.cacheFile]

\* spawn(mainCmd, cmdArgs): the run command starts on the build file as it
\* is now; the cache file as it is now is noted
Spawned(r, d) ==
    [r EXCEPT !.pc = "spawned", !.steps = Append(@, "spawn"),
              !.ran = d.buildFile, !.entryAtSpawn = d.cacheFile]

\* from the cache read to the next await: a hit spawns the stored command
\* at once, a miss starts writing the script file
AfterCache(r, cache, cacheSrc) ==
    IF NeedsRebuild(cache, cdef.updated, disk.buildFile)
    THEN [r EXCEPT !.cache = cache, !.cacheSrc = cacheSrc, !.pc = "writeScript"]
    ELSE Spawned([r EXCEPT !.cache = cache, !.cacheSrc = cacheSrc, !.hit = TRUE,
                           !.mainCmd = cache[1].mainCmd], disk)

\* the invocations that had saved their cache entry and spawned
Completed == {j \in CInvs : crun[j].pc = "spawned" /\ ~crun[j].hit
                              /\ \E k \in DOMAIN crun[j].steps :
                                     crun[j].steps[k] = "saveCache"}

\* the invocations between their first await and their spawn or failure
InFlight == {j \in CInvs : crun[j].pc \in {"readCache", "writeScript",
                                            "building", "saveCache"}}

\* the 'input' handler up to its first await: resolution, validation, and
\* existsSync(cacheFile).  Invocations are numbered in order of arrival.
OnCInput(i, m) ==
    LET script == OrString(cdef.script, m.script)
        language == ResolveLanguage(cdef, m)
        r == [NoRun EXCEPT !.script = script, !.language = language,
                           !.after = Completed]
    IN  /\ crun[i].pc = "idle"
        /\ \A j \in CInvs : j < i => crun[j].pc # "idle"
        /\ Cardinality(InFlight) < MaxInFlight
        /\ language # "sh"
        /\ crun' = [crun EXCEPT
                      ![i] = IF script = "" THEN [r EXCEPT !.pc = "rejected"]
                             ELSE IF disk.cacheFile # <<>>
                                  THEN [r EXCEPT !.pc = "readCache"]
                             ELSE AfterCache(r, <<>>, <<>>)]
        /\ UNCHANGED <<realtimeVars, cclose, cdef, disk, execVars, call>>

CMsgs ==
    {[script |-> "", language |-> "ts"], [script |-> "A", language |-> "ts"],
     [script |-> "B", language |-> "ts"], [script |-> "A", language |-> "py"]}

CInput(i) == \E m \in CMsgs : OnCInput(i, m)

\* await readFile(cacheFile) returns: the entry, or {} after a failed read
CReadCache(i) ==
    /\ crun[i].pc = "readCache"
    /\ \E ok \in BOOLEAN :
        crun' = [crun EXCEPT
                   ![i] = IF ok THEN AfterCache(@, disk.cacheFile, disk.cacheSrc)
                          ELSE AfterCache(@, <<>>, <<>>)]
    /\ UNCHANGED <<realtimeVars, cclose, cdef, disk, execVars, call>>

\* await writeFile(scriptFile) returns; on success buildScript spawns the
\* build process, on failure the handler throws
CWriteScript(i) ==
    /\ crun[i].pc = "writeScript"
    /\ \E ok \in BOOLEAN :
        IF ok
        THEN /\ disk' = [disk EXCEPT
                            !.scriptFile[crun[i].language] = <<crun[i].script>>]
             /\ crun' = [crun EXCEPT ![i].pc = "building",
                                     ![i].steps = Append(@, "writeScript")]
        ELSE /\ crun' = [crun EXCEPT
                            ![i].pc = "failed",
                            ![i].error = <<"Failed to write script file">>]
             /\ UNCHANGED disk
    /\ UNCHANGED <<realtimeVars, cclose, cdef, execVars, call>>

BuildStderr == "stderr of the build"

\* a handler that falls back to the cached command when the build fails
BuildFailedFallback(r, d) ==
    IF r.cache # <<>> THEN Spawned([r EXCEPT !.mainCmd = r.cache[1].mainCmd], d)
    ELSE [r EXCEPT !.pc = "failed",
                   !.error = <<"Build failed with exit code", BuildStderr>>]

\* buildScript rejects, the handler's catch reports the error
BuildFailed(r, d) ==
    [r EXCEPT !.pc = "failed",
              !.error = <<"Build failed with exit code", BuildStderr>>]

\* the build process reports 'close' (or 'error'): exit code 0 with or
\* without an artifact at buildFile, a non-zero exit code, a spawn error.
\* After a successful build the run command is parsed and the cache write
\* is started.
CBuildClose(i) ==
    /\ crun[i].pc = "building"
    /\ \E outcome \in {"artifact", "no artifact", "non-zero", "spawn error"} :
        CASE outcome = "artifact" ->
                 /\ disk' = [disk EXCEPT
                       !.buildFile = <<Source(disk.scriptFile[crun[i].language][1],
                                              crun[i].language)>>]
                 /\ crun' = [crun EXCEPT ![i].pc = "saveCache",
                                         ![i].steps = Append(@, "build"),
                                         ![i].mainCmd = cdef.cmd]
          [] outcome = "no artifact" ->
                 /\ crun' = [crun EXCEPT ![i].pc = "saveCache",
                                         ![i].steps = Append(@, "build"),
                                         ![i].mainCmd = cdef.cmd]
                 /\ UNCHANGED disk
          [] outcome = "non-zero" ->
                 /\ crun' = [crun EXCEPT ![i] = BuildFailed(@, disk)]
                 /\ UNCHANGED disk
          [] outcome = "spawn error" ->
                 /\ crun' = [crun EXCEPT ![i].pc = "failed",
                                         ![i].error = <<"Build spawn error">>]
                 /\ UNCHANGED disk
    /\ UNCHANGED <<realtimeVars, cclose, cdef, execVars, call>>

\* a handler that spawns the run command before it writes the cache file
CSaveCacheSpawnFirst(i) ==
    /\ crun[i].pc = "saveCache"
    /\ \E ok \in BOOLEAN :
        /\ disk' = IF ok
                   THEN [disk EXCEPT
                           !.cacheFile = <<CacheEntry(cdef.updated, crun[i].mainCmd)>>,
                           !.cacheSrc = <<Source(crun[i].script, crun[i].language)>>]
                   ELSE disk
        /\ crun' = [crun EXCEPT
                      ![i] = IF ok THEN [Spawned(@, disk) EXCEPT
                                           !.steps = Append(@, "saveCache")]
                             ELSE Spawned(@, disk)]
    /\ UNCHANGED <<realtimeVars, cclose, cdef, execVars, call>>

\* await writeFile(cacheFile) returns; a failure is only warned about.  The
\* run command is spawned in the same turn.
CSaveCache(i) ==
    /\ crun[i].pc = "saveCache"
    /\ \E ok \in BOOLEAN :
        /\ disk' = IF ok
                   THEN [disk EXCEPT
                           !.cacheFile = <<CacheEntry(cdef.updated, crun[i].mainCmd)>>,
                           !.cacheSrc = <<Source(crun[i].script, crun[i].language)>>]
                   ELSE disk
        /\ crun' = [crun EXCEPT
                      ![i] = Spawned(IF ok THEN [@ EXCEPT !.steps = Append(@, "saveCache")]
                                     ELSE @, disk')]
    /\ UNCHANGED <<realtimeVars, cclose, cdef, execVars, call>>

CDefs ==
    {[script |-> "", language |-> "", cmd |-> "node", updated |-> CurrentUpdated],
     [script |-> "A", language |-> "ts", cmd |-> "node", updated |-> CurrentUpdated]}

CacheInit ==
    /\ ExecNodeInit({CHOOSE d \in Defs : TRUE})
    /\ call = NoCall
    /\ cclose = NotClosed
    /\ NoRealtime
    /\ cdef \in CDefs
    /\ disk \in {EmptyDisk, PreviousDisk}
    /\ crun = [i \in CInvs |-> NoRun]

CacheNext ==
    \E i \in CInvs :
        \/ CInput(i)
        \/ CReadCache(i)
        \/ CWriteScript(i)
        \/ CBuildClose(i)
        \/ CSaveCache(i)

CacheSpec == CacheInit /\ [][CacheNext]_vars

\* ------------------------------- the compiled-language node and its close
CloseInvs == {1, 2}

\* the child processes of the node that are running: the build process of
\* an invocation waiting for it, the run process of one that has spawned
BuildRunning(i) == crun[i].pc = "building"
RunRunning(i) == crun[i].pc = "spawned"

\* this.on('close'): SIGTERM to every process in the set, which holds the
\* run processes added after their spawn
CNodeClose ==
    /\ ~cclose.closed
    /\ cclose' = [closed |-> TRUE,
                  signalled |-> {<<"run", i>> : i \in {j \in CInvs : RunRunning(j)}}]
    /\ UNCHANGED <<realtimeVars, compiledVars, execVars, call>>

\* no message is delivered to a closed node; the handlers already suspended
\* at an await go on
CloseNext ==
    \/ \E i \in CloseInvs :
        \/ ~cclose.closed /\ CInput(i)
        \/ CReadCache(i)
        \/ CWriteScript(i)
        \/ CBuildClose(i)
        \/ CSaveCache(i)
    \/ CNodeClose

CloseSpec == CacheInit /\ [][CloseNext]_vars

\* ---------------------------------------------------- the pb-realtime node
realtimeRest == <<def, processes, pc, msg, proc, exitStatus, signalled,
                  timeoutRef, exec, kills, sent, child, logged, compiledVars,
                  cclose, call>>

RActions == {"subscribe", "unsubscribe", "list"}

\* a message arrives: the handler awaits pbAutoAuth.  key is
\* collection:topic as the message and the node resolve them, "" when no
\* collection is given.
RInput(i) ==
    /\ rinv[i].pc = "idle"
    /\ \A j \in RInvs : j < i => rinv[j].pc # "idle"
    /\ ~rclosed
    /\ \E action \in RActions, key \in RKeys \cup {""} :
        rinv' = [rinv EXCEPT ![i] = [pc |-> "auth", action |-> action, key |-> key]]
    /\ UNCHANGED <<subscriptions, server, rclosed, realtimeRest>>

\* unsubscribeFunc(): the server subscription that function belongs to ends
Unsubscribed(srv, funcs) ==
    [j \in RInvs |-> IF j \in funcs THEN "unsubscribed" ELSE srv[j]]

\* pbAutoAuth returns and the handler runs on to its next await or its end
RAuthDone(i) ==
    LET r == rinv[i]
        stored == IF r.key = "" THEN <<>> ELSE subscriptions[r.key]
        Finish(to) == rinv' = [rinv EXCEPT ![i].pc = to]
    IN  /\ r.pc = "auth"
        /\ \E ok \in BOOLEAN :
            IF ~ok \/ r.key = ""
            THEN Finish("failed") /\ UNCHANGED <<subscriptions, server>>
            ELSE CASE r.action = "subscribe" ->
                          /\ Finish(IF stored # <<>> THEN "exists" ELSE "subscribing")
                          /\ UNCHANGED <<subscriptions, server>>
                   [] r.action = "unsubscribe" ->
                          IF stored # <<>>
                          THEN /\ server' = Unsubscribed(server, {stored[1]})
                               /\ subscriptions' = [subscriptions EXCEPT ![r.key] = <<>>]
                               /\ Finish("unsubscribed")
                          ELSE Finish("not found") /\ UNCHANGED <<subscriptions, server>>
                   [] OTHER -> Finish("unknown action") /\ UNCHANGED <<subscriptions, server>>
        /\ UNCHANGED <<rclosed, realtimeRest>>

\* pb.collection(collection).subscribe(...) settles: the subscription is
\* established and its unsubscribe function stored, or the call failed
RSubscribeDone(i) ==
    /\ rinv[i].pc = "subscribing"
    /\ \E ok \in BOOLEAN :
        IF ok
        THEN /\ server' = [server EXCEPT ![i] = "active"]
             /\ subscriptions' = [subscriptions EXCEPT ![rinv[i].key] = <<i>>]
             /\ rinv' = [rinv EXCEPT ![i].pc = "subscribed"]
        ELSE /\ rinv' = [rinv EXCEPT ![i].pc = "failed"]
             /\ UNCHANGED <<subscriptions, server>>
    /\ UNCHANGED <<rclosed, realtimeRest>>

\* the node's 'close' handler: every stored function is called and deleted
RClose ==
    /\ ~rclosed
    /\ rclosed' = TRUE
    /\ server' = Unsubscribed(server, {subscriptions[k][1] :
                                         k \in {k \in RKeys : subscriptions[k] # <<>>}})
    /\ subscriptions' = [k \in RKeys |-> <<>>]
    /\ UNCHANGED <<rinv, realtimeRest>>

RealtimeInit == ExecNodeInit({CHOOSE d \in Defs : TRUE}) /\ NoCompiled
                /\ cclose = NotClosed /\ NoRealtime /\ call = NoCall

RealtimeNext ==
    \/ \E i \in RInvs :
        \/ RInput(i)
        \/ RAuthDone(i)
        \/ RSubscribeDone(i)
    \/ RClose

RealtimeSpec == RealtimeInit /\ [][RealtimeNext]_vars

\* ------------------------------------------- two invocations in flight
\* the node configured with a timeout and a limit; messages that leave both
\* to the node
ConcDefs == {d \in Defs : d.timeout = Some(1) /\ d.limit = Some(1)}

ConcMsgs == {m \in Msgs : m.timeout = None /\ m.limit = None}

ConcInit == NodeInit(ConcDefs) /\ call = NoCall

ConcInput(i) == \E m \in ConcMsgs : OnInput(i, m)

\* the handlers of both slots interleave; the processes write no output
ConcNext ==
    \/ \E i \in Invs :
        \/ ConcInput(i)
        \/ TimerFire(i)
        \/ ProcExit(i)
        \/ CloseCb(i)
        \/ ErrorCb(i)
    \/ NodeClose

ConcSpec == ConcInit /\ [][ConcNext]_vars

\* two invocations in flight whose processes write output: a node that
\* does not stream, messages with a script; the second slot takes the
\* message that arrives second
PairDefs == {d \in ConcDefs : d.streaming = Some(FALSE)}

PairMsgs == {m \in ConcMsgs : m.script # ""}

PairInit == NodeInit(PairDefs) /\ call = NoCall

PairInput(i) ==
    /\ \A j \in Invs : j < i => pc[j] # "idle"
    /\ \E m \in PairMsgs : OnInput(i, m)

\* the first script writes to stdout only, the second to stderr only
PairNext ==
    \/ \E i \in Invs :
        \/ PairInput(i)
        \/ TimerFire(i)
        \/ ProcExit(i)
        \/ CloseCb(i)
    \/ StdoutData(1)
    \/ StderrData(2)

PairSpec == PairInit /\ [][PairNext]_vars

\* ------------------------------------------------ invocations with stdin
\* the node with a timeout and a limit, with and without a stdin path;
\* messages that carry a payload of each type
IoDefs ==
    [script : {""}, streaming : {Some(FALSE)}, timeout : {Some(1)},
     limit : {Some(1)}, stdin : {"", "payload"}, format : {"string"},
     strip : {Some(TRUE)}, env : {Some(TRUE)}]

IoPayloads ==
    {Undefined, Null, Buf(<<"a">>), Str(<<"a">>), Num(7), Obj(<<"a">>, 7)}

IoMsgs ==
    [script : {"sh"}, streaming : {None}, timeout : {None}, limit : {None},
     stdin : {""}, payload : IoPayloads, format : {""}, strip : {None},
     env : {None}]

IoInit == NodeInit(IoDefs) /\ call = NoCall

IoInput(i) == \E m \in IoMsgs : OnInput(i, m)

IoNext ==
    \/ \E i \in MainInvs :
        \/ IoInput(i)
        \/ StdinWriteCb(i)
        \/ StdinStreamError(i)
        \/ TimerFire(i)
        \/ StdoutData(i)
        \/ StderrData(i)
        \/ ProcExit(i)
        \/ CloseCb(i)
        \/ ErrorCb(i)
    \/ NodeClose

IoSpec == IoInit /\ [][IoNext]_vars

\* ------------------------------------------- every configuration field
\* the formats the node's definition type lists
SupportedFormats == {"string", "buffer", "json", "split", "full"}

\* the node and the message set or leave out format and env; a format may be
\* one the node does not know
CfgDefs ==
    [script : DefScripts, streaming : {Some(FALSE)}, timeout : DefTimeouts,
     limit : DefLimits, stdin : {""}, format : {"", "json", "xml"},
     strip : {Some(TRUE)}, env : {Some(FALSE), Some(TRUE)}]

CfgMsgs ==
    [script : MsgScripts, streaming : {None}, timeout : MsgTimeouts,
     limit : MsgLimits, stdin : {""}, payload : {Undefined},
     format : {"", "full", "yaml"}, strip : {None}, env : {None, Some(FALSE)}]

CfgInit == NodeInit(CfgDefs) /\ call = NoCall

CfgInput(i) == \E m \in CfgMsgs : OnInput(i, m)

\* one invocation; the process writes no output
CfgNext ==
    \/ \E i \in MainInvs :
        \/ CfgInput(i)
        \/ TimerFire(i)
        \/ ProcExit(i)
        \/ CloseCb(i)
        \/ ErrorCb(i)
    \/ NodeClose

CfgSpec == CfgInit /\ [][CfgNext]_vars

\* ------------------------------------------------- the helper functions
nodeVars == <<def, processes, pc, msg, proc, exitStatus, signalled,
              timeoutRef, exec, kills, sent, child, logged, compiledVars,
              cclose, realtimeVars>>

\* a node that gets no message, while one helper is called on one argument
HelperInit(calls) ==
    /\ NodeInit({CHOOSE d \in Defs : TRUE})
    /\ call \in calls

\* the conversion of a stdin value, in the shell and in the compiled variant
StdinCalls ==
    [fn : {"toInputChunk", "stdinData"}, arg : Values, done : {FALSE},
     result : {None}]

CallToInputChunk ==
    /\ call.fn = "toInputChunk" /\ ~call.done
    /\ call' = [call EXCEPT !.done = TRUE, !.result = ToInputChunk(call.arg)]
    /\ UNCHANGED nodeVars

CallStdinData ==
    /\ call.fn = "stdinData" /\ ~call.done
    /\ call' = [call EXCEPT !.done = TRUE, !.result = CachedStdinData(call.arg)]
    /\ UNCHANGED nodeVars

StdinInit == HelperInit(StdinCalls)

StdinNext == CallToInputChunk \/ CallStdinData

StdinSpec == StdinInit /\ [][StdinNext]_vars

\* the formatting of one output text under one configuration of strip and
\* format
FormatCalls ==
    [fn : {"formatText", "formatOutput"},
     arg : [d : [strip : {Some(FALSE), Some(TRUE)},
                 format : {"string", "json", "buffer"}],
            m : [strip : {None}, format : {""}],
            text : Texts],
     done : {FALSE},
     result : {Formatted("none", <<>>, NoValue)}]

CallFormatText ==
    /\ call.fn = "formatText" /\ ~call.done
    /\ call' = [call EXCEPT
                   !.done = TRUE,
                   !.result = FormatText(ResolveStrip(call.arg.d, call.arg.m),
                                         ResolveFormat(call.arg.d, call.arg.m),
                                         call.arg.text)]
    /\ UNCHANGED nodeVars

CallFormatOutput ==
    /\ call.fn = "formatOutput" /\ ~call.done
    /\ call' = [call EXCEPT
                   !.done = TRUE,
                   !.result = FormatOutput(call.arg.d.format, call.arg.text)]
    /\ UNCHANGED nodeVars

FormatInit == HelperInit(FormatCalls)

FormatNext == CallFormatText \/ CallFormatOutput

FormatSpec == FormatInit /\ [][FormatNext]_vars

\* the records, paths and values given to setPath and getPath
MaxPathSegments == 3

PathChildren ==
    {JString(<<"s">>), JNumber(7), JObject(NoProps),
     JObject([k \in {<<"b">>} |-> JString(<<"s">>)]),
     JArray(<<>>), JArray(<<JString(<<"s">>)>>), JArray(<<JObject(NoProps)>>)}

PathRecords ==
    {JObject(NoProps)} \cup {JObject([k \in {<<"a">>} |-> c]) : c \in PathChildren}

\* a path starts with an identifier and goes on with .identifier, [index]
\* or ['quoted'] segments
FirstSegments == {<<"a">>, <<"msg">>}
NextSegments ==
    {<<".", "a">>, <<".", "b">>, <<"[", "0", "]">>, <<"[", "1", "]">>,
     <<"[", "'", "b", "'", "]">>}

RECURSIVE PathTails(_)
PathTails(n) ==
    IF n = 0 THEN {<<>>}
    ELSE PathTails(n - 1) \cup {t \o seg : t \in PathTails(n - 1), seg \in NextSegments}

Paths == {first \o t : first \in FirstSegments, t \in PathTails(MaxPathSegments - 1)}

PathValues == {JString(<<"v">>), JNumber(1)}

PathCalls ==
    [fn : {"setPath"}, arg : [obj : PathRecords, path : Paths, value : PathValues],
     done : {FALSE}, result : {JUndefined}]

\* setPath(record, path, v), the record is changed in place
CallSetPath ==
    /\ call.fn = "setPath" /\ ~call.done
    /\ call' = [call EXCEPT
                  !.fn = "getPath",
                  !.arg.obj = setPath(call.arg.obj, call.arg.path, call.arg.value)]
    /\ UNCHANGED nodeVars

\* getPath(record, path) on the record as setPath left it
CallGetPath ==
    /\ call.fn = "getPath" /\ ~call.done
    /\ call' = [call EXCEPT !.done = TRUE,
                            !.result = getPath(call.arg.obj, call.arg.path)]
    /\ UNCHANGED nodeVars

PathInit == HelperInit(PathCalls)

PathNext == CallSetPath \/ CallGetPath

PathSpec == PathInit /\ [][PathNext]_vars

\* templates of one {{path}} token between a prefix and a suffix, and the
\* messages they are filled from
Token(path) == <<"{", "{">> \o path \o <<"}", "}">>

TemplatePaths == {<<"a">>, <<"b">>, <<"a", ".", "b">>}
TemplatePrefixes == {<<>>, <<"x", " ">>, <<"\"">>}
TemplateSuffixes == {<<>>, <<"\"">>}

TemplateRecords ==
    {JObject(NoProps)} \cup
    {JObject([k \in {<<"a">>} |-> c]) :
        c \in {JString(<<"s">>), JNumber(7), JBoolean(TRUE),
               JObject([k \in {<<"b">>} |-> JString(<<"s">>)]),
               JArray(<<JString(<<"s">>)>>)}}

TemplateArgs(modes, targets) ==
    [prefix : TemplatePrefixes, path : TemplatePaths, suffix : TemplateSuffixes,
     obj : TemplateRecords, mode : modes, target : targets]

Content(arg) == arg.prefix \o Token(arg.path) \o arg.suffix

TemplateCalls ==
    [fn : {"setTemplate"}, arg : TemplateArgs({""}, {<<>>}), done : {FALSE},
     result : {<<>>}]

TurboSetModes == {"", "path", "json", "text", "jsonTemplate", "textTemplate", "xml"}

TurboSetCalls ==
    [fn : {"turboSet"}, arg : TemplateArgs(TurboSetModes, {<<>>, <<"t">>}),
     done : {FALSE}, result : {TurboSetResult(<<>>, "")}]

CallSetTemplate ==
    /\ call.fn = "setTemplate" /\ ~call.done
    /\ call' = [call EXCEPT !.done = TRUE,
                            !.result = setTemplate(Content(call.arg), call.arg.obj)]
    /\ UNCHANGED nodeVars

\* one message to a turbo-set node whose source is the token's path and
\* whose content is the template
CallTurboSet ==
    /\ call.fn = "turboSet" /\ ~call.done
    /\ call' = [call EXCEPT
                  !.done = TRUE,
                  !.result = OnTurboSet([target |-> call.arg.target,
                                         source |-> call.arg.path,
                                         mode |-> call.arg.mode,
                                         content |-> Content(call.arg)],
                                        call.arg.obj)]
    /\ UNCHANGED nodeVars

TemplateInit == HelperInit(TemplateCalls) \/ HelperInit(TurboSetCalls)

TemplateNext == CallSetTemplate \/ CallTurboSet

TemplateSpec == TemplateInit /\ [][TemplateNext]_vars

\* ------------------------------------- the exec/spawn helper's Exec mode
\* what a script prints: texts of the letter m and newlines
MaxOutLen == 3
ShellTexts == SeqsUpTo({"m", "\n"}, MaxOutLen)

\* text.trim() === ''
IsBlank(text) == \A i \in DOMAIN text : text[i] \in {" ", "\n"}

\* text.split('\n').filter(line => line.trim() !== '')
RECURSIVE SplitLines(_, _)
SplitLines(text, line) ==
    IF text = <<>> THEN (IF IsBlank(line) THEN <<>> ELSE <<line>>)
    ELSE IF text[1] = "\n"
         THEN (IF IsBlank(line) THEN <<>> ELSE <<line>>) \o SplitLines(Tail(text), <<>>)
    ELSE SplitLines(Tail(text), Append(line, text[1]))

\* the error exec hands to its callback: null, a non-zero exit code, or the
\* kill by exec's own timeout (code null, read as 0 by `|| 0`)
ExecError(isNull, code, killed, signal) ==
    [isNull |-> isNull, code |-> code, killed |-> killed, signal |-> signal]
ExecErrors ==
    {ExecError(TRUE, 0, FALSE, ""), ExecError(FALSE, 1, FALSE, ""),
     ExecError(FALSE, 0, TRUE, "SIGTERM")}
ByTimeout(error) == ~error.isNull /\ error.killed /\ error.signal = "SIGTERM"

TimeoutMessage == "Process killed due to timeout"

Payload(out, err, error) ==
    [out |-> out, err |-> err, success |-> error.isNull, code |-> error.code]

Line(text) == Formatted("text", text, NoValue)

\* split format without the message that is sent when there is no line
SplitMessagesNoFinal(error, stdout, stderr) ==
    [i \in 1..Len(SplitLines(stdout, <<>>)) |->
        Payload(Line(SplitLines(stdout, <<>>)[i]), Line(<<>>), error)]
    \o [i \in 1..Len(SplitLines(stderr, <<>>)) |->
        Payload(Line(<<>>), Line(SplitLines(stderr, <<>>)[i]), error)]

\* split format: one message per line of stdout, then per line of stderr,
\* and one message when there is no line at all
SplitMessages(error, stdout, stderr) ==
    [i \in 1..Len(SplitLines(stdout, <<>>)) |->
        Payload(Line(SplitLines(stdout, <<>>)[i]), Line(<<>>), error)]
    \o [i \in 1..Len(SplitLines(stderr, <<>>)) |->
        Payload(Line(<<>>), Line(SplitLines(stderr, <<>>)[i]), error)]
    \o (IF SplitLines(stdout, <<>>) = <<>> /\ SplitLines(stderr, <<>>) = <<>>
        THEN <<Payload(Line(<<>>),
                       Line(IF ByTimeout(error) THEN <<TimeoutMessage>> ELSE <<>>),
                       error)>>
        ELSE <<>>)

\* the callback of exec: the payloads of the messages it sends
ExecCallback(d, error, stdout, stderr) ==
    IF d.outputFormat = "split" THEN SplitMessages(error, stdout, stderr)
    ELSE <<Payload(FormatOutput(d.outputFormat, stdout),
                   FormatOutput(d.outputFormat,
                                IF ByTimeout(error)
                                THEN stderr \o <<"\n", TimeoutMessage>> ELSE stderr),
                   error)>>

NoShellRun == [pc |-> "idle", sent |-> <<>>, error |-> "", stdout |-> <<>>, stderr |-> <<>>]

ShellFormats == {"", "text", "buffer", "json", "list", "split"}

ShellCalls ==
    [fn : {"helpersShell"},
     arg : [script : {<<>>, <<" ">>, <<"s">>}, mode : {"", "exec"},
            outputFormat : ShellFormats],
     done : {FALSE}, result : {NoShellRun}]

\* the 'input' handler: a blank script is refused, otherwise exec starts
ShellInput ==
    /\ call.fn = "helpersShell" /\ call.result.pc = "idle"
    /\ call' = IF IsBlank(call.arg.script)
               THEN [call EXCEPT !.done = TRUE, !.result.pc = "refused",
                                 !.result.error = "Script is required"]
               ELSE [call EXCEPT !.result.pc = "running"]
    /\ UNCHANGED nodeVars

\* the process has ended and exec calls back, once
ShellExecDone ==
    /\ call.fn = "helpersShell" /\ call.result.pc = "running"
    /\ \E error \in ExecErrors, stdout \in ShellTexts, stderr \in {<<>>, <<"m">>} :
        call' = [call EXCEPT
                   !.done = TRUE,
                   !.result = [pc |-> "done", error |-> "",
                               stdout |-> stdout, stderr |-> stderr,
                               sent |-> ExecCallback(call.arg, error, stdout, stderr)]]
    /\ UNCHANGED nodeVars

ShellInit == HelperInit(ShellCalls)

ShellNext == ShellInput \/ ShellExecDone

ShellSpec == ShellInit /\ [][ShellNext]_vars

\* ------------------------------------ the exec/spawn helper's Spawn mode
\* one invocation: the process ("none", "running", "exited": ended with
\* 'close' still to come, "failed": could not be spawned, "closed"), what
\* 'close' will report, the timeout timer, whether SIGTERM reached the
\* running process, the chunks handled and the messages sent
NoSpawnRun ==
    [pc |-> "idle", proc |-> "none", status |-> NoStatus, timer |-> "none",
     killed |-> FALSE, chunks |-> 0, sent |-> <<>>, error |-> ""]

SpawnCalls ==
    [fn : {"helpersShellSpawn"},
     arg : [script : {<<>>, <<" ">>, <<"s">>}, mode : {"spawn"}],
     done : {FALSE}, result : {NoSpawnRun}]

\* a message on one of the three outputs; success is that of a result
\* message's payload
SpawnMsg(port, kind, success) == [port |-> port, kind |-> kind, success |-> success]

SpawnStep(r) ==
    /\ call' = [call EXCEPT !.result = r, !.done = (r.pc \in {"refused", "done"})]
    /\ UNCHANGED nodeVars

\* the 'input' handler: a blank script is refused, otherwise the shell is
\* spawned (or fails to be) and the timeout is set
SpawnInput ==
    /\ call.fn = "helpersShellSpawn" /\ call.result.pc = "idle"
    /\ IF IsBlank(call.arg.script)
       THEN SpawnStep([call.result EXCEPT !.pc = "refused",
                                          !.error = "Script is required"])
       ELSE \E started \in BOOLEAN :
               SpawnStep([call.result EXCEPT
                            !.pc = "spawned",
                            !.proc = IF started THEN "running" ELSE "failed",
                            !.timer = "set"])

\* the timeout callback: SIGTERM, which reaches the process only while it
\* runs, and the timeout message on the second output
SpawnTimerFire ==
    /\ call.fn = "helpersShellSpawn"
    /\ call.result.timer = "set" /\ call.result.proc \in {"running", "exited"}
    /\ SpawnStep([call.result EXCEPT
                    !.timer = "fired",
                    !.killed = (call.result.proc = "running"),
                    !.sent = Append(@, SpawnMsg(2, "timeout", FALSE))])

\* a 'data' handler of stdout (output 1) or stderr (output 2), in a format
\* that sends one message per chunk
SpawnData(stream) ==
    /\ call.fn = "helpersShellSpawn"
    /\ call.result.proc \in {"running", "exited"}
    /\ call.result.chunks < MaxChunks
    /\ SpawnStep([call.result EXCEPT
                    !.chunks = @ + 1,
                    !.sent = Append(@, SpawnMsg(IF stream = "out" THEN 1 ELSE 2,
                                                "data", FALSE))])

\* the process ends: with an exit code of its own, also after SIGTERM when
\* it handles the signal, or by the signal
SpawnProcExit ==
    /\ call.fn = "helpersShellSpawn" /\ call.result.proc = "running"
    /\ \E st \in {[code |-> c, signal |-> None] : c \in OwnExitCodes}
                 \cup (IF call.result.killed
                       THEN {[code |-> None, signal |-> Some("SIGTERM")]} ELSE {}) :
        SpawnStep([call.result EXCEPT !.proc = "exited", !.status = st])

\* spawnProcess.on('close'): the timer is cleared and the result message
\* goes to the third output
SpawnCloseCb ==
    /\ call.fn = "helpersShellSpawn" /\ call.result.proc = "exited"
    /\ SpawnStep([call.result EXCEPT
                    !.pc = "done", !.proc = "closed",
                    !.timer = IF @ = "set" THEN "cleared" ELSE @,
                    !.sent = Append(@, SpawnMsg(3, "result",
                                 /\ call.result.status.code = Some(0)
                                 /\ call.result.status.signal = None))])

\* spawnProcess.on('error') after a failed spawn: the timer is cleared, the
\* error goes to the second output and a result to the third
SpawnErrorCb ==
    /\ call.fn = "helpersShellSpawn" /\ call.result.proc = "failed"
    /\ SpawnStep([call.result EXCEPT
                    !.pc = "done", !.proc = "closed",
                    !.timer = "cleared",
                    !.sent = @ \o <<SpawnMsg(2, "error", FALSE),
                                    SpawnMsg(3, "result", FALSE)>>])

SpawnInit == HelperInit(SpawnCalls)

SpawnNext ==
    \/ SpawnInput
    \/ SpawnTimerFire
    \/ \E stream \in Streams : SpawnData(stream)
    \/ SpawnProcExit
    \/ SpawnCloseCb
    \/ SpawnErrorCb

SpawnSpec == SpawnInit /\ [][SpawnNext]_vars

\* ------------------------------- the script the shell node hands to /bin/sh
\* { node: this, env: process.env, script, ...msg }: a property of the
\* message replaces the one of the same name
TemplateData(script, m) ==
    JObject([k \in {<<"node">>, <<"env">>, <<"script">>} \cup DOMAIN m.props |->
               IF k \in DOMAIN m.props THEN m.props[k]
               ELSE IF k = <<"script">> THEN JString(script)
               ELSE JObject(NoProps)])

\* the 'input' handler from the script's validation to the spawn: the error
\* thrown ("": none) and, when /bin/sh is spawned, the text after -c
PrepareScript(script, m) ==
    IF IsBlank(script)
    THEN [spawned |-> FALSE, script |-> <<>>, error |-> "script"]
    ELSE [spawned |-> TRUE, script |-> setTemplate(script, TemplateData(script, m)),
          error |-> ""]

ScriptPrefixes == {<<>>, <<" ">>, <<"x">>}
ScriptTokens == {<<>>, Token(<<"a">>), Token(<<"b">>), Token(<<"script">>)}
ScriptSuffixes == {<<>>, <<"\n">>}

\* messages whose property a is absent, empty, blank, or a word
ScriptMsgs ==
    {JObject(NoProps)} \cup
    {JObject([k \in {<<"a">>} |-> JString(t)]) : t \in {<<>>, <<" ">>, <<"s">>}}

ScriptCalls ==
    [fn : {"prepareScript"},
     arg : [prefix : ScriptPrefixes, token : ScriptTokens, suffix : ScriptSuffixes,
            msg : ScriptMsgs],
     done : {FALSE},
     result : {[spawned |-> FALSE, script |-> <<>>, error |-> ""]}]

ScriptOf(arg) == arg.prefix \o arg.token \o arg.suffix

CallPrepareScript ==
    /\ call.fn = "prepareScript" /\ ~call.done
    /\ call' = [call EXCEPT !.done = TRUE,
                            !.result = PrepareScript(ScriptOf(call.arg), call.arg.msg)]
    /\ UNCHANGED nodeVars

ScriptInit == HelperInit(ScriptCalls)

ScriptNext == CallPrepareScript

ScriptSpec == ScriptInit /\ [][ScriptNext]_vars

\* --------------------------------------------------- pbRetry (common.ts)
\* one call of pbRetry: msg.pb is a client or not, the client's auth info,
\* and the seconds since info.lastRefresh
RetryArgs ==
    [hasPb : BOOLEAN, autoRefreshOnError : BOOLEAN,
     tokenRefreshSeconds : {0, 3600}, elapsed : {0, 3600, 3601}]

\* where the call is suspended, the operation's invocations so far, what
\* happened in order, and how the call ended ("": not yet) with which error
NoRetry == [pc |-> "client", attempts |-> 0, log |-> <<>>, outcome |-> "", error |-> ""]

RetryCalls == [fn : {"pbRetry"}, arg : RetryArgs, done : {FALSE}, result : {NoRetry}]

\* (Date.now() - info.lastRefresh) > (info.tokenRefreshSeconds * 1000)
ShouldRefresh(arg) ==
    /\ arg.tokenRefreshSeconds # 0
    /\ arg.elapsed * 1000 > arg.tokenRefreshSeconds * 1000

Thrown(r, event, error) ==
    [r EXCEPT !.pc = "done", !.log = Append(@, event), !.outcome = "thrown",
              !.error = error]

RetryStep(r) ==
    /\ call' = [call EXCEPT !.result = r, !.done = (r.pc = "done")]
    /\ UNCHANGED nodeVars

\* await pbClient(msg): msg.pb as it is, or pbAuth(msg), which can throw
PbClientDone ==
    /\ call.fn = "pbRetry" /\ call.result.pc = "client"
    /\ \E ok \in (IF call.arg.hasPb THEN {TRUE} ELSE BOOLEAN) :
        RetryStep(IF ok
                  THEN [call.result EXCEPT
                          !.pc = IF ShouldRefresh(call.arg) THEN "refresh" ELSE "operation",
                          !.log = Append(@, "client")]
                  ELSE Thrown(call.result, "client failed", "auth"))

\* await pbRefresh(pb): authRefresh succeeds, or it fails and pbAuth with
\* the stored credentials succeeds, or that fails too and pbRefresh throws
PbRefreshDone ==
    /\ call.fn = "pbRetry" /\ call.result.pc = "refresh"
    /\ \E outcome \in {"refreshed", "authenticated", "failed"} :
        RetryStep(IF outcome = "failed"
                  THEN Thrown(call.result, "refresh failed", "auth")
                  ELSE [call.result EXCEPT !.pc = "operation",
                                           !.log = Append(@, "refresh")])

\* an operation retried after every failure of the first attempt
PbOperationAlwaysRetry ==
    /\ call.fn = "pbRetry" /\ call.result.pc = "operation"
    /\ \E ok \in BOOLEAN :
        LET r == [call.result EXCEPT !.attempts = @ + 1]
        IN  RetryStep(IF ok
                      THEN [r EXCEPT !.pc = "done", !.log = Append(@, "operation"),
                                     !.outcome = "returned"]
                      ELSE IF r.attempts = 1
                           THEN [r EXCEPT !.pc = "refresh",
                                          !.log = Append(@, "operation failed")]
                      ELSE Thrown(r, "operation failed", "second"))

\* await operation(pb) returns or throws: the first attempt's error is
\* warned about and followed by pbRefresh when info.autoRefreshOnError is
\* set, thrown otherwise; the second attempt's error is thrown
PbOperationDone ==
    /\ call.fn = "pbRetry" /\ call.result.pc = "operation"
    /\ \E ok \in BOOLEAN :
        LET r == [call.result EXCEPT !.attempts = @ + 1]
        IN  RetryStep(IF ok
                      THEN [r EXCEPT !.pc = "done", !.log = Append(@, "operation"),
                                     !.outcome = "returned"]
                      ELSE IF r.attempts = 1 /\ call.arg.autoRefreshOnError
                           THEN [r EXCEPT !.pc = "refresh",
                                          !.log = Append(@, "operation failed")]
                      ELSE Thrown(r, "operation failed",
                                  IF r.attempts = 1 THEN "first" ELSE "second"))

RetryInit == HelperInit(RetryCalls)

RetryNext == PbClientDone \/ PbRefreshDone \/ PbOperationDone

RetrySpec == RetryInit /\ [][RetryNext]_vars

\* ----------------------------------------------------------------- claims
ExitEvents(i) == {k \in DOMAIN sent[i] : sent[i][k].topic = "exit"}

CloseExitEvents(i) == {k \in ExitEvents(i) : sent[i][k].by = "close"}

ChunkEvents(i) == {k \in DOMAIN sent[i] : sent[i][k].topic \in Streams}

\* the value the configuration gives a field: the node's, else the message's
Configured(d, m) == IF d # None THEN d ELSE m

C2_AtMostOneExit ==
    \A i \in Invs : Cardinality(ExitEvents(i)) <= 1

\* C3: an invocation rejected before any process is spawned has delivered
\* exactly one terminal outcome to the output.
C3_RejectedDeliversOutcome ==
    \A i \in Invs : pc[i] = "rejected" => Cardinality(ExitEvents(i)) = 1

\* C4: in every result the close handler sends, success is true exactly when
\* exec.code is 0 and exec.error is empty.
C4_SuccessIffCodeZeroNoError ==
    \A i \in Invs : \A k \in CloseExitEvents(i) :
        LET x == sent[i][k].exec
        IN  x.success = Some(TRUE) <=> (x.code = Some(0) /\ x.error = <<>>)

\* C5: a terminal result with success == true has an empty error, and its
\* process ended by its own exit with code 0: neither the timeout timer nor
\* the limit check called kill for it, and no spawn error was reported.
C5_SuccessImpliesCleanExit ==
    \A i \in Invs : \A k \in ExitEvents(i) :
        sent[i][k].exec.success = Some(TRUE) =>
            /\ sent[i][k].exec.error = <<>>
            /\ exitStatus[i] = [code |-> Some(0), signal |-> None]
            /\ kills[i] \cap {"timeout", "limit"} = {}
            /\ \A j \in ExitEvents(i) : sent[i][j].by # "error"

\* C5 witness: a successful result was sent.
C5_Witness ==
    \E i \in Invs : \E k \in ExitEvents(i) : sent[i][k].exec.success = Some(TRUE)

\* C6: in a streaming invocation the start event precedes every chunk event,
\* and every chunk event precedes the exit events.
C6_StartChunksExitOrdered ==
    \A i \in Invs :
        (pc[i] = "spawned" /\ ResolveStreaming(def, msg[i])) =>
            /\ sent[i] # <<>> /\ sent[i][1].topic = "start"
            /\ \A k \in ChunkEvents(i) :
                /\ \E j \in 1..(k - 1) : sent[i][j].topic = "start"
                /\ \A j \in ExitEvents(i) : k < j

\* C6 witness: a streaming invocation sent start, a chunk and its exit.
C6_Witness ==
    \E i \in Invs :
        /\ ResolveStreaming(def, msg[i])
        /\ ChunkEvents(i) # {}
        /\ ExitEvents(i) # {}

\* C7: once an exit event has been sent for an invocation, no further event
\* of any kind is sent for it.
C7_NothingAfterExit ==
    [][\A i \in Invs : ExitEvents(i) # {} => sent'[i] = sent[i]]_vars

\* C8: an invocation whose limit is configured as 0 is never killed on limit
\* grounds and never gets a buffer-limit error.
C8_ZeroLimitUnlimited ==
    \A i \in Invs :
        (pc[i] = "spawned" /\ Configured(def.limit, msg[i].limit) = Some(0)) =>
            /\ "limit" \notin kills[i]
            /\ (exec[i].error = <<>> \/ exec[i].error[1] # "buffer limit exceeded")

\* C9: an invocation whose timeout is configured as 0 starts no timer and is
\* never killed on timeout grounds.
C9_ZeroTimeoutNoTimer ==
    \A i \in Invs :
        (pc[i] = "spawned" /\ Configured(def.timeout, msg[i].timeout) = Some(0)) =>
            /\ timeoutRef[i] = "none"
            /\ "timeout" \notin kills[i]

\* C10: if the timer fired while the process was running, the result the
\* close handler sends has success == false and error "timeout".
C10_TimeoutReportedAtClose ==
    \A i \in Invs : \A k \in CloseExitEvents(i) :
        "timeout" \in signalled[i] =>
            /\ sent[i][k].exec.success = Some(FALSE)
            /\ sent[i][k].exec.error = TimeoutError

\* C11: once the limit check called kill on a running process, the result
\* the close handler sends has success == false and an error naming the
\* configured byte limit, whatever callbacks ran in between.
C11_LimitReportedAtClose ==
    \A i \in Invs : \A k \in CloseExitEvents(i) :
        "limit" \in signalled[i] =>
            /\ sent[i][k].exec.success = Some(FALSE)
            /\ sent[i][k].exec.error =
                   LimitError(LimitBytes(ResolveLimit(def, msg[i])))

\* C12: when the spawn fails, the 'error' handler reports at once, before any
\* other callback of the invocation: its result has success == false, the
\* spawn error's message as error and empty stdout and stderr accumulators,
\* and the invocation's process never runs (no second spawn is attempted).
C12_SpawnFailureReported ==
    \A i \in Invs :
        exitStatus[i].code = Some(SpawnErrno) =>
            /\ proc[i] \in {"spawnError", "errorEmitted", "closed"}
            /\ signalled[i] = {}
            /\ ChunkEvents(i) = {}
            /\ proc[i] # "spawnError" =>
                   \E k \in ExitEvents(i) :
                       /\ sent[i][k].by = "error"
                       /\ \A j \in ExitEvents(i) : k <= j
            /\ \A k \in ExitEvents(i) :
                   sent[i][k].by = "error" =>
                       /\ sent[i][k].exec.success = Some(FALSE)
                       /\ sent[i][k].exec.error = SpawnError
                       /\ sent[i][k].exec.outChunks = <<>>
                       /\ sent[i][k].exec.errChunks = <<>>

\* C12 witness: the 'error' handler has reported a failed spawn.
C12_Witness ==
    \E i \in Invs : \E k \in ExitEvents(i) :
        proc[i] = "errorEmitted" /\ sent[i][k].by = "error"

\* C13: the node's close handler calls kill on every spawned process that
\* has not yet reported 'close' or 'error', empties the registry, and returns
\* without waiting: no process changes state and nothing is sent in the step.
C13_NodeCloseSignalsAll ==
    [][NodeClose =>
          /\ \A i \in Invs :
                 (pc[i] = "spawned" /\ proc[i] \in {"running", "exited", "spawnError"})
                     => "shutdown" \in kills'[i]
          /\ \A i \in Invs : proc[i] = "running" => "shutdown" \in signalled'[i]
          /\ processes' = {}
          /\ proc' = proc /\ pc' = pc /\ sent' = sent /\ exec' = exec]_vars

\* C13 witness: both slots' processes were running and both were signalled by
\* the close handler.
C13_Witness ==
    /\ processes = {}
    /\ \A i \in Invs : proc[i] = "running" /\ signalled[i] = {"shutdown"}

\* the stdin failures the node logged
StdinFailures(i) ==
    logged[i] \cap ({"stdin not writable", "stdin write exception"}
                      \cup {"stdin write " \o e : e \in WriteErrors}
                      \cup {"stdin stream " \o e : e \in WriteErrors})

\* C14: a stdin failure (write callback error, stream error, stream not
\* writable, exception in the write) never sets the result's error and never
\* changes success: the error is empty or names the timeout, the limit or
\* the spawn failure, and the result sent at close has success == true
\* exactly when the process exited with code 0 and neither the timer nor the
\* limit check called kill.
C14_StdinFailureNotInResult ==
    \A i \in Invs :
        /\ exec[i].error \in
               {<<>>, TimeoutError, SpawnError,
                LimitError(LimitBytes(ResolveLimit(def, msg[i])))}
        /\ \A k \in CloseExitEvents(i) :
               sent[i][k].exec.success =
                   Some(/\ exitStatus[i].code = Some(0)
                        /\ kills[i] \cap {"timeout", "limit"} = {})

\* C14 witness: a result with success == true was sent although the write
\* callback and the stream both reported a failure.
C14_Witness ==
    \E i \in Invs : \E k \in CloseExitEvents(i) :
        /\ sent[i][k].exec.success = Some(TRUE)
        /\ "stdin write EPIPE" \in StdinFailures(i)
        /\ "stdin stream EPIPE" \in StdinFailures(i)

\* C15: the bytes written to stdin are the value itself when it is binary,
\* its JSON text when it is an object or an array, and its plain string
\* coercion, without JSON quoting, when it is a string, number or boolean.
C15_StdinBytes ==
    (call.done /\ call.fn \in {"toInputChunk", "stdinData"}) =>
        LET v == call.arg
        IN  /\ v.type = "buffer" => call.result = Some(v.str)
            /\ v.type \in {"object", "array"} => call.result = Some(JsonText(v))
            /\ v.type = "string" => call.result = Some(v.str)
            /\ v.type = "number" => call.result = Some(NumText(v.num))
            /\ v.type = "boolean" => call.result = Some(BoolText(v.bool))

\* C16: when a stdin path is configured, the stream is ended for every
\* resolved value, a write comes before the end, and the value's bytes are
\* what is written unless the stream was not writable or write() threw.
C16_StdinWrittenThenClosed ==
    \A i \in Invs :
        (pc[i] = "spawned" /\ ResolveStdin(def, msg[i]) # "") =>
            LET ops == child[i].stdin
                chunk == ToInputChunk(GetPath(msg[i], ResolveStdin(def, msg[i])))
            IN  /\ ops # <<>> /\ ops[Len(ops)] = EndOp
                /\ \A k \in 1..(Len(ops) - 1) : ops[k].op = "write"
                /\ (chunk # None /\ StdinFailures(i) = {}) =>
                       ops = <<WriteOp(chunk[1]), EndOp>>

\* C17: an invocation whose script is empty, whose timeout or limit is
\* negative, or whose format is not one of string, buffer, json, split, full
\* is rejected before spawning: no child process is created for it.
C17_MalformedRejected ==
    \A i \in Invs :
        (/\ pc[i] # "idle"
         /\ \/ ResolveScript(def, msg[i]) = ""
            \/ ResolveTimeout(def, msg[i]) < 0
            \/ ResolveLimit(def, msg[i]) < 0
            \/ ResolveFormat(def, msg[i]) \notin SupportedFormats)
            => (pc[i] = "rejected" /\ proc[i] = "none" /\ child[i] = NoChild)

\* C20: the child gets a copy of the parent's environment when env is
\* configured true, and an empty environment when it is configured false.
C20_EnvFollowsConfig ==
    \A i \in Invs :
        pc[i] = "spawned" =>
            child[i].env = IF Configured(def.env, msg[i].env) = Some(TRUE)
                           THEN "parent" ELSE "empty"

\* a finished call of formatText whose resolved format is f
FormattedAs(f) ==
    /\ call.fn = "formatText" /\ call.done
    /\ ResolveFormat(call.arg.d, call.arg.m) = f

\* a finished call of formatOutput on a node whose outputFormat is json
OutputAsJson ==
    call.fn = "formatOutput" /\ call.done /\ call.arg.d.format = "json"

\* C18 as stated: with format json the output is the parsed value of the
\* decoded text when the text is valid JSON, and the decoded text itself
\* when it is not; the formatter never raises.
C18_JsonOrDecodedText ==
    (FormattedAs("json") \/ OutputAsJson) =>
        LET text == call.arg.text
        IN  call.result =
                IF JsonParse(text).ok
                THEN Formatted("value", <<>>, JsonParse(text).value)
                ELSE Formatted("text", text, NoValue)

\* C18 amended: with format json the output is the JSON value parsed from
\* the decoded text with its colour sequences removed when that is valid
\* JSON, and that stripped text otherwise, whatever strip is configured to;
\* for a text without colour sequences this is the parsed value of the text
\* or the text itself.  The exec/spawn helper's formatOutput parses the
\* decoded text as it is.  Neither formatter raises.
C18_JsonOrStrippedText ==
    (FormattedAs("json") \/ OutputAsJson) =>
        LET text == call.arg.text
            plain == IF OutputAsJson THEN text ELSE StripAnsi(text)
        IN  /\ call.result.kind \in {"value", "text"}
            /\ call.result.kind = "value" <=> JsonParse(plain).ok
            /\ call.result.kind = "value" => call.result.value = JsonParse(plain).value
            /\ call.result.kind = "text" => call.result.text = plain
            /\ (plain = text /\ ~JsonParse(text).ok) =>
                   call.result = Formatted("text", text, NoValue)

\* C18 witness: a text that is a colour sequence followed by a JSON number
\* was formatted to the number.
C18_Witness ==
    /\ FormattedAs("json")
    /\ call.arg.text = <<"ESC", "[", "m", "1">>
    /\ call.result = Formatted("value", <<>>, JsonValue(0, TRUE, 1))

\* C19: colour sequences are removed exactly when strip is configured true:
\* with strip false the text is returned intact, and the buffer format is
\* never stripped.
C19_StripOnlyWhenConfigured ==
    (call.fn = "formatText" /\ call.done) =>
        LET text == call.arg.text
            strip == Configured(call.arg.d.strip, call.arg.m.strip) = Some(TRUE)
        IN  /\ FormattedAs("string") =>
                call.result.text = IF strip THEN StripAnsi(text) ELSE text
            /\ FormattedAs("buffer") => call.result.text = text

\* C21: in the compiled-language node, an invocation reuses the cache entry
\* (spawns the stored command without rebuilding) only when the script and
\* the language it resolved equal those the entry was built from.
C21_CacheReusedOnlyForSameSource ==
    \A i \in CInvs :
        crun[i].hit =>
            crun[i].cacheSrc = <<Source(crun[i].script, crun[i].language)>>

\* invocation i arrived after invocation j had built, saved its cache entry
\* and spawned, resolved the same script and language as j, and is past its
\* cache read
LaterSameSource(i, j) ==
    /\ j \in crun[i].after
    /\ crun[i].script = crun[j].script
    /\ crun[i].language = crun[j].language
    /\ crun[i].pc \in {"writeScript", "building", "saveCache", "spawned", "failed"}

\* a cache hit: nothing written or built, the stored command spawned
CacheHit(i) ==
    /\ crun[i].hit
    /\ crun[i].steps = <<"spawn">>
    /\ crun[i].cache # <<>>
    /\ crun[i].mainCmd = crun[i].cache[1].mainCmd

\* C22: an invocation that arrives after another one of the same node has
\* completed its build and saved its cache entry, with the same script and
\* language, is a cache hit: no script write, no build, the stored command
\* is spawned.
C22_LaterInvocationHits ==
    \A i, j \in CInvs : LaterSameSource(i, j) => CacheHit(i)

\* C22, amended: the same holds provided the earlier build left a file at
\* the build path (it was there when that invocation spawned) and the later
\* invocation could read and parse the cache file.
C22_LaterInvocationHitsIfArtifactAndCacheRead ==
    \A i, j \in CInvs :
        (LaterSameSource(i, j) /\ crun[j].ran # <<>> /\ crun[i].cache # <<>>)
            => CacheHit(i) /\ crun[i].mainCmd = crun[j].mainCmd

C22_Witness ==
    \E i, j \in CInvs :
        /\ LaterSameSource(i, j)
        /\ crun[j].ran # <<>>
        /\ CacheHit(i)
        /\ crun[i].pc = "spawned"

\* C23: when the build of an invocation ends without success the invocation
\* is aborted for good: no run process is spawned, neither the stored nor
\* the new run command is used, the cache file is left as it was, and the
\* error reported for a non-zero exit code carries the build's stderr.
C23_BuildFailureAborts ==
    [][\A i \in CInvs :
          /\ (crun[i].pc = "building" /\ crun'[i].pc \notin {"building", "saveCache"})
                => /\ crun'[i].pc = "failed"
                   /\ crun'[i].ran = <<>>
                   /\ crun'[i].mainCmd = ""
                   /\ crun'[i].steps = crun[i].steps
                   /\ disk'.cacheFile = disk.cacheFile
                   /\ crun'[i].error \in {<<"Build failed with exit code", BuildStderr>>,
                                          <<"Build spawn error">>}
          /\ crun[i].pc = "failed" => crun'[i] = crun[i]]_vars

C23_Witness ==
    \E i \in CInvs :
        /\ crun[i].pc = "failed"
        /\ crun[i].error = <<"Build failed with exit code", BuildStderr>>
        /\ crun[i].cache # <<>>
        /\ disk.cacheFile = crun[i].cache

\* C24: an invocation that missed the cache spawns its run command only
\* after the script was written, the build ran to completion and the new
\* cache entry was persisted, in that order, so the cache file at the time
\* of the spawn describes the current version.
C24_MissOrder ==
    \A i \in CInvs :
        (crun[i].pc = "spawned" /\ ~crun[i].hit)
            => /\ crun[i].steps = <<"writeScript", "build", "saveCache", "spawn">>
               /\ crun[i].entryAtSpawn = <<CacheEntry(cdef.updated, crun[i].mainCmd)>>

\* C24, amended: the steps are taken in that order, but a cache write that
\* fails is only warned about and the run command is spawned all the same;
\* the cache file describes the current version at the spawn when the
\* write succeeded.
C24_MissOrderUnlessSaveFails ==
    \A i \in CInvs :
        /\ crun[i].pc = "building" => crun[i].steps = <<"writeScript">>
        /\ crun[i].pc = "saveCache" => crun[i].steps = <<"writeScript", "build">>
        /\ (crun[i].pc = "spawned" /\ ~crun[i].hit)
              => \/ /\ crun[i].steps = <<"writeScript", "build", "saveCache", "spawn">>
                    /\ crun[i].entryAtSpawn
                         = <<CacheEntry(cdef.updated, crun[i].mainCmd)>>
                 \/ crun[i].steps = <<"writeScript", "build", "spawn">>

C24_Witness ==
    \E i \in CInvs :
        /\ crun[i].pc = "spawned"
        /\ crun[i].steps = <<"writeScript", "build", "saveCache", "spawn">>
        /\ crun[i].cache = <<CacheEntry(PreviousUpdated, "deno")>>
        /\ crun[i].entryAtSpawn = <<CacheEntry(CurrentUpdated, "node")>>

\* C25: for every record and every path of identifier, bracketed-index and
\* quoted segments, getPath(record, path) after setPath(record, path, v)
\* returns v, whatever objects, arrays and scalars lie along the path.
C25_SetThenGet ==
    (call.fn = "getPath" /\ call.done) => call.result = call.arg.value

\* C26: setTemplate replaces a {{identifier}} token by the value the
\* identifier resolves to, verbatim, when that is a string or a number, and
\* by the text "undefined" when it is of any other type.
C26_TokenVerbatimOrUndefined ==
    (call.fn = "setTemplate" /\ call.done /\ Len(call.arg.path) = 1)
        => LET value == JGet(call.arg.obj, call.arg.path)
           IN  call.result
                 = call.arg.prefix
                   \o (IF value.kind \in {"string", "number"} THEN value.val
                       ELSE <<"undefined">>)
                   \o call.arg.suffix

HasDottedValue(arg) ==
    /\ arg.path = <<"a", ".", "b">>
    /\ JGet(JGet(arg.obj, <<"a">>), <<"b">>).kind = "string"

\* C27: in the turbo-set node's Text Template and JSON Template modes a
\* {{path}} token whose path is a dotted message path is replaced by the
\* value at that path: the message sent carries, at the target, the template
\* with the value in the token's place (for JSON Template, parsed).
C27_DottedTokenReplaced ==
    (call.fn = "turboSet" /\ call.done /\ HasDottedValue(call.arg))
        => LET value == JGet(JGet(call.arg.obj, <<"a">>), <<"b">>)
               text == call.arg.prefix \o value.val \o call.arg.suffix
               target == IF call.arg.target = <<>> THEN <<"payload">> ELSE call.arg.target
           IN  /\ call.arg.mode = "textTemplate"
                    => /\ call.result.error = ""
                       /\ call.result.sent # <<>>
                       /\ JGet(call.result.sent[1], target) = JString(text)
               /\ (call.arg.mode = "jsonTemplate" /\ TemplateJsonParse(text) # <<>>)
                    => /\ call.result.error = ""
                       /\ call.result.sent # <<>>
                       /\ JGet(call.result.sent[1], target) = TemplateJsonParse(text)[1]

\* C28: in the helper node's Exec mode an input with a script that is not
\* blank yields exactly one message {out, err, success, code}, sent after
\* the process has completed, whatever output format is configured.
C28_ExecOneMessage ==
    /\ call.result.pc = "running" => call.result.sent = <<>>
    /\ call.result.pc = "done" => Len(call.result.sent) = 1

\* C28, amended: that holds for every output format but split; with split
\* there is one message per line of stdout that is not blank, then one per
\* such line of stderr, and a single message only when there is no line.
C28_ExecOneMessageUnlessSplit ==
    /\ call.fn = "helpersShell"
    /\ call.result.pc \in {"idle", "running", "refused"} => call.result.sent = <<>>
    /\ (call.result.pc = "done" /\ call.arg.outputFormat # "split")
          => /\ Len(call.result.sent) = 1
             /\ call.result.sent[1].out
                  = FormatOutput(call.arg.outputFormat, call.result.stdout)
    /\ (call.result.pc = "done" /\ call.arg.outputFormat = "split")
          => LET lines == Len(SplitLines(call.result.stdout, <<>>))
                          + Len(SplitLines(call.result.stderr, <<>>))
             IN  Len(call.result.sent) = IF lines = 0 THEN 1 ELSE lines

C28_Witness ==
    /\ call.fn = "helpersShell"
    /\ call.result.pc = "done"
    /\ call.arg.outputFormat = "json"
    /\ call.result.stdout = <<"m", "\n", "m">>
    /\ Len(call.result.sent) = 1
    /\ call.result.sent[1].success

\* C29: two runs of the same invocation (same script, same language) of a
\* node give the same result whatever earlier invocations left behind: both
\* execute the same artifact, the one the run command finds at the build
\* path, which decides exit code and output of a deterministic script.
C29_SameInvocationSameRun ==
    \A i, j \in CInvs :
        (/\ crun[i].pc = "spawned" /\ crun[j].pc = "spawned"
         /\ crun[i].script = crun[j].script
         /\ crun[i].language = crun[j].language)
            => crun[i].ran = crun[j].ran

\* the invocation's accumulators or byte counter change, or a timeout or
\* limit kill is sent for it
OwnStep(i) ==
    \/ exec'[i].outChunks # exec[i].outChunks
    \/ exec'[i].errChunks # exec[i].errChunks
    \/ exec'[i].length # exec[i].length
    \/ (kills'[i] \ kills[i]) \cap {"timeout", "limit"} # {}

\* C30: with two invocations of a node in flight, a chunk is appended only
\* to the accumulators and counter of the invocation whose process wrote it,
\* a timeout or limit kill goes only to the process of the invocation whose
\* timer fired or whose counter passed its limit, and the terminal result of
\* an invocation carries its own accumulators and its own exit status.
C30_InvocationsIsolated ==
    /\ [][\A i, j \in Invs :
            (i # j /\ OwnStep(i))
                => /\ exec'[j] = exec[j] /\ sent'[j] = sent[j]
                   /\ kills'[j] = kills[j] /\ signalled'[j] = signalled[j]
                   /\ proc'[j] = proc[j] /\ timeoutRef'[j] = timeoutRef[j]
                   /\ "timeout" \in kills'[i] \ kills[i] => timeoutRef[i] = "armed"
                   /\ "limit" \in kills'[i] \ kills[i]
                        => OverLimit(LimitBytes(ResolveLimit(def, msg[i])),
                                     exec'[i].length)]_vars
    /\ [](\A i \in Invs : \A k \in CloseExitEvents(i) :
            /\ sent[i][k].exec = exec[i]
            /\ exec[i].code = Some(CodeOrZero(exitStatus[i].code))
            /\ exec[i].signal = exitStatus[i].signal)

C30_Witness ==
    \E i, j \in Invs :
        /\ i # j
        /\ proc[i] = "closed" /\ proc[j] = "closed"
        /\ "timeout" \in kills[i] /\ kills[j] = {}
        /\ exec[i].outChunks # <<>> /\ exec[i].errChunks = <<>>
        /\ exec[j].errChunks # <<>> /\ exec[j].outChunks = <<>>
        /\ exec[i].length # exec[j].length
        /\ CloseExitEvents(i) # {} /\ CloseExitEvents(j) # {}

ActiveFor(key) == {i \in RInvs : server[i] = "active" /\ rinv[i].key = key}

\* C31: once the pb-realtime node's 'close' handler has run, no subscription
\* that node established is active: each has had its unsubscribe function
\* called, whatever the interleaving of subscribe inputs and the close.
C31_NoSubscriptionAfterClose ==
    rclosed => \A i \in RInvs : server[i] # "active"

\* C38: for each key collection:topic the pb-realtime node holds at most
\* one active server subscription, also while a subscribe call for the key
\* is in flight, and the unsubscribe function of every active subscription
\* is the one stored under its key.
C38_OneSubscriptionPerKey ==
    \A key \in RKeys :
        /\ Cardinality(ActiveFor(key)) <= 1
        /\ \A i \in ActiveFor(key) : subscriptions[key] = <<i>>

\* limit in MB times 1024 * 1024, for the limit the invocation resolved
CeilingBytes(i) == ResolveLimit(def, msg[i]) * 1024 * 1024

\* C32: a limit kill is sent only in a state where the bytes received so
\* far on stdout and stderr together are strictly more than limitBytes, so
\* an invocation whose counter has not passed limitBytes has no limit kill.
C32_LimitStrictCeiling ==
    /\ [][\A i \in MainInvs :
            "limit" \in kills'[i] \ kills[i]
                => /\ exec'[i].length > CeilingBytes(i)
                   /\ exec[i].length < exec'[i].length]_vars
    /\ [](\A i \in MainInvs :
            exec[i].length <= CeilingBytes(i) => "limit" \notin kills[i])

C32_Witness ==
    \E i \in MainInvs :
        /\ "limit" \in kills[i]
        /\ exec[i].length = CeilingBytes(i) + 1
        /\ Len(exec[i].outChunks) + Len(exec[i].errChunks) = 2

\* C33: once the limit kill has been sent for an invocation, a chunk that
\* arrives later is not appended to its stdout or stderr accumulator, so the
\* output of the terminal result ends at the kill.
C33_NoAppendAfterLimitKill ==
    [][\A i \in MainInvs :
          "limit" \in kills[i]
              => /\ exec'[i].outChunks = exec[i].outChunks
                 /\ exec'[i].errChunks = exec[i].errChunks]_vars

\* C34: the text handed to /bin/sh -c is never empty or made of white space
\* only, once the template tokens of the script have been replaced.
C34_SpawnedScriptNotBlank ==
    (call.fn = "prepareScript" /\ call.done /\ call.result.spawned)
        => ~IsBlank(call.result.script)

\* the events a 'data' handler has sent for one stream of an invocation
DataEvents(i, stream) ==
    SelectSeq(sent[i], LAMBDA e : e.topic = stream /\ e.by = "data")

ChunksOf(x, stream) == IF stream = "out" THEN x.outChunks ELSE x.errChunks

\* C35: in streaming mode every chunk appended to the stdout (stderr)
\* accumulator has been sent as exactly one event of that stream, in arrival
\* order: the k-th event of the stream carries the k-th accumulated chunk.
C35_StreamedChunksAddUp ==
    \A i \in MainInvs : \A stream \in Streams :
        (msg[i] # NoMsg /\ ResolveStreaming(def, msg[i]))
            => /\ Len(DataEvents(i, stream)) = Len(ChunksOf(exec[i], stream))
               /\ \A k \in DOMAIN DataEvents(i, stream) :
                    ChunksOf(DataEvents(i, stream)[k].exec, stream)
                        = SubSeq(ChunksOf(exec[i], stream), 1, k)

\* the invocations that wrote the script file
Wrote(j) == \E k \in DOMAIN crun[j].steps : crun[j].steps[k] = "writeScript"

\* C36: invocations of one node are not serialized on the script file, the
\* build file and the cache file: an invocation waiting to write its script
\* can always do so, whatever the others are in the middle of, and the run
\* command starts on the build file as it is on disk at the spawn, not on an
\* artifact known to come from the invocation's own script.
C36_NotSerialized ==
    /\ [](\A i \in CInvs : crun[i].pc = "writeScript" => ENABLED CWriteScript(i))
    /\ [][\A i \in CInvs :
            (crun[i].pc # "spawned" /\ crun'[i].pc = "spawned")
                => crun'[i].ran = disk'.buildFile]_vars

\* one invocation wrote script A and built, another one still in flight
\* wrote script B over it, and the first has spawned its run command on the
\* artifact of B
C36_Witness ==
    \E i, j \in CInvs :
        /\ i # j
        /\ \A k \in CInvs \ {i, j} : crun[k].pc = "idle"
        /\ crun[i].pc = "spawned" /\ ~crun[i].hit /\ Wrote(i)
        /\ crun[i].script = "A" /\ crun[j].script = "B"
        /\ crun[i].language = crun[j].language
        /\ Wrote(j) /\ crun[j].pc = "building"
        /\ crun[i].ran = <<Source("B", crun[i].language)>>

\* C37: once the compiled-language node is closed, every build process and
\* every run process of the node that is running has been sent SIGTERM,
\* whichever await its handler was suspended at when the close came.
C37_NoChildSurvivesClose ==
    cclose.closed
        => \A i \in CloseInvs :
              /\ BuildRunning(i) => <<"build", i>> \in cclose.signalled
              /\ RunRunning(i) => <<"run", i>> \in cclose.signalled

\* the positions of the operation's invocations in the log of a pbRetry call
Attempts(r) == {k \in DOMAIN r.log : r.log[k] \in {"operation", "operation failed"}}

FirstAttempt(r) == CHOOSE k \in Attempts(r) : \A l \in Attempts(r) : k <= l

\* C39: pbRetry invokes the operation at most twice.  A call that made a
\* first attempt ends after it when the attempt succeeded, and when it
\* failed with autoRefreshOnError not set, the first error being thrown; a
\* second attempt comes only after a failed first one with autoRefreshOnError
\* set and a completed pbRefresh; the second attempt's failure is thrown and
\* ends the call.
C39_RetryAtMostOnce ==
    call.fn = "pbRetry" =>
        LET r == call.result
            a == call.arg
        IN  /\ r.attempts = Cardinality(Attempts(r))
            /\ r.attempts <= 2
            /\ (r.attempts >= 1 /\ r.log[FirstAttempt(r)] = "operation")
                   => r.attempts = 1 /\ r.outcome = "returned"
            /\ (r.attempts >= 1 /\ ~a.autoRefreshOnError)
                   => /\ r.attempts = 1
                      /\ r.log[FirstAttempt(r)] = "operation failed"
                             => r.outcome = "thrown" /\ r.error = "first"
            /\ r.attempts = 2
                   => /\ a.autoRefreshOnError
                      /\ \E k \in DOMAIN r.log :
                            /\ k > FirstAttempt(r)
                            /\ r.log[FirstAttempt(r)] = "operation failed"
                            /\ r.log[k] = "refresh"
                            /\ \A l \in Attempts(r) \ {FirstAttempt(r)} : l > k
                      /\ r.log[Len(r.log)] = "operation failed"
                             => r.pc = "done" /\ r.outcome = "thrown" /\ r.error = "second"

\* a call whose first attempt failed, whose refresh completed and whose
\* second attempt failed too
C39_Witness ==
    /\ call.fn = "pbRetry" /\ call.done
    /\ call.result.attempts = 2
    /\ call.result.outcome = "thrown" /\ call.result.error = "second"

\* C40: in Spawn mode, a result message sent after the timeout message
\* carries success = false, and no timeout message is sent after a result
\* message.
C40_TimeoutThenFailedResult ==
    call.fn = "helpersShellSpawn" =>
        \A k \in DOMAIN call.result.sent :
            call.result.sent[k].kind = "result"
                => /\ (\E j \in 1..(k - 1) : call.result.sent[j].kind = "timeout")
                          => ~call.result.sent[k].success
                   /\ \A j \in DOMAIN call.result.sent :
                          j > k => call.result.sent[j].kind # "timeout"

====
